---- MODULE Spec2Model ----
(***************************************************************************)
(* Model of workflow/use_case_generator.py: the step cache                 *)
(* (load_partial_result / save_partial_result), the JobManager with its    *)
(* failure policy (handle_step_failure) and the six-stage driver (main).   *)
(*                                                                         *)
(* A Python str is a sequence of tokens.  The tokens NL, SP, Quote and     *)
(* Backslash stand for the characters newline, blank, '"' and '\'.  In the *)
(* content of step records and in the fallback table every other token is  *)
(* one character; in the JSON text of a structured document a token is a   *)
(* whole piece of the text (a key, a value, a bracket, a comma).           *)
(***************************************************************************)
EXTENDS Integers, Sequences, FiniteSets, TLC

\* ---------------------------------------------------------------------------
\* Bounds
\* ---------------------------------------------------------------------------
\* longest content string handed to save_partial_result by the cache harness
MaxLen == 1
\* number of times main is invoked on the same job directory
MaxRuns == 2
\* longest list of source URLs the research call returns to the title-lookup
\* harness
MaxUrls == 2
\* longest list of questions researched in parallel by the batch harness
MaxQuestions == 2
\* longest list of citations or resources handed to the document assembler by
\* its harness (next to the two full examples)
MaxItems == 2

\* ---------------------------------------------------------------------------
\* Characters and strings
\* ---------------------------------------------------------------------------
NL == "<nl>"
SP == "<sp>"
Quote == "<quote>"
Backslash == "<backslash>"

Whitespace == {NL, SP}

\* characters of the content strings the cache harness saves
Alphabet == {"n", Quote, Backslash, NL}

RECURSIVE StringsUpTo(_)
StringsUpTo(n) ==
  IF n = 0 THEN {<<>>}
  ELSE LET shorter == StringsUpTo(n - 1)
       IN shorter \cup {Append(s, c) : s \in shorter, c \in Alphabet}

Strings == StringsUpTo(MaxLen)

\* str.strip(): leading and trailing whitespace removed
RECURSIVE LStrip(_)
LStrip(s) ==
  IF s = <<>> THEN <<>>
  ELSE IF Head(s) \in Whitespace THEN LStrip(Tail(s)) ELSE s

RECURSIVE RStrip(_)
RStrip(s) ==
  IF s = <<>> THEN <<>>
  ELSE IF s[Len(s)] \in Whitespace THEN RStrip(SubSeq(s, 1, Len(s) - 1)) ELSE s

Strip(s) == RStrip(LStrip(s))

\* str.split("\n"): always at least one piece, "" gives [""]
RECURSIVE SplitLines(_)
SplitLines(s) ==
  IF \A i \in 1..Len(s) : s[i] # NL THEN <<s>>
  ELSE LET k == CHOOSE i \in 1..Len(s) :
                  s[i] = NL /\ \A j \in 1..(i - 1) : s[j] # NL
       IN <<SubSeq(s, 1, k - 1)>> \o SplitLines(SubSeq(s, k + 1, Len(s)))

\* "\n".join(list)
RECURSIVE JoinLines(_)
JoinLines(l) ==
  IF l = <<>> THEN <<>>
  ELSE IF Len(l) = 1 THEN l[1]
  ELSE l[1] \o <<NL>> \o JoinLines(Tail(l))

\* iterating a str yields its characters, each a str of length one
Chars(s) == [i \in 1..Len(s) |-> <<s[i]>>]

\* ---------------------------------------------------------------------------
\* JSON text of a str: json.dumps escapes, json.loads unescapes
\* ---------------------------------------------------------------------------
\* json.dumps as it would be if the backslash were written as it is
EscapeChar_BackslashKept(c) ==
  IF c = Quote THEN <<Backslash, Quote>>
  ELSE IF c = NL THEN <<Backslash, "n">>
  ELSE <<c>>

EscapeChar(c) ==
  IF c = Quote THEN <<Backslash, Quote>>
  ELSE IF c = Backslash THEN <<Backslash, Backslash>>
  ELSE IF c = NL THEN <<Backslash, "n">>
  ELSE <<c>>

\* the characters json.dumps escapes
Special == {Quote, Backslash, NL}

\* the positions of the special characters of s, and the first of them
SpecialAt(s) == {i \in 1..Len(s) : s[i] \in Special}
First(idx) == CHOOSE i \in idx : \A j \in idx : i <= j

\* the text up to the first special character is copied, the character is
\* escaped, and so on for the rest
RECURSIVE JsonEscape(_)
JsonEscape(s) ==
  LET idx == SpecialAt(s)
  IN IF idx = {} THEN s
     ELSE LET k == First(idx)
          IN SubSeq(s, 1, k - 1) \o EscapeChar(s[k])
             \o JsonEscape(SubSeq(s, k + 1, Len(s)))

JsonDumpsStr(s) == <<Quote>> \o JsonEscape(s) \o <<Quote>>

Undecodable == [ok |-> FALSE, val |-> <<>>]

\* the body of a JSON string literal (between the quotes) decoded; ok is
\* FALSE when the body is not a valid literal body: a bare quote or line
\* break, a backslash at the end or before a character that is no escape
RECURSIVE JsonUnescape(_)
JsonUnescape(b) ==
  LET idx == SpecialAt(b)
  IN IF idx = {} THEN [ok |-> TRUE, val |-> b]
     ELSE LET k == First(idx)
          IN IF b[k] # Backslash \/ k = Len(b) THEN Undecodable
             ELSE IF b[k + 1] \notin {Quote, Backslash, "n"} THEN Undecodable
             ELSE LET rest == JsonUnescape(SubSeq(b, k + 2, Len(b)))
                      c == IF b[k + 1] = "n" THEN NL ELSE b[k + 1]
                  IN IF rest.ok
                       THEN [ok |-> TRUE, val |-> SubSeq(b, 1, k - 1) \o <<c>> \o rest.val]
                       ELSE Undecodable

\* the concatenation of a sequence of sequences
RECURSIVE Flatten(_)
Flatten(ss) ==
  IF Len(ss) = 0 THEN <<>>
  ELSE IF Len(ss) = 1 THEN ss[1]
  ELSE LET m == Len(ss) \div 2
       IN Flatten(SubSeq(ss, 1, m)) \o Flatten(SubSeq(ss, m + 1, Len(ss)))

\* ---------------------------------------------------------------------------
\* Step names and the job directory
\* ---------------------------------------------------------------------------
Steps == <<"research_questions", "deep_research", "refined_draft",
           "final_use_case", "example_solution", "visual_suggestions">>

StepNames == {Steps[i] : i \in 1..Len(Steps)}

FallbackSteps == {"research_questions", "deep_research", "visual_suggestions"}

NoFallbackSteps == {"refined_draft", "final_use_case", "example_solution"}

\* a file of the job directory: absent, or present with its text
NoFile == [exists |-> FALSE, text |-> <<>>]
File(t) == [exists |-> TRUE, text |-> t]

\* Optional[str]
None == [none |-> TRUE, str |-> <<>>]
Some(s) == [none |-> FALSE, str |-> s]

\* truthiness of an Optional[str]: None and "" are falsy
Truthy(o) == ~o.none /\ o.str # <<>>

\* json.dump({"content": content}, f, indent=2)
RecordText(content) ==
  <<"{">> \o JsonDumpsStr(<<"content">>) \o <<":">> \o JsonDumpsStr(content) \o <<"}">>

RecordHeader == <<"{">> \o JsonDumpsStr(<<"content">>) \o <<":", Quote>>

\* json.load(f) followed by data.get("content", "")
JsonLoadRecord(t) ==
  IF t = <<"{", "}">> THEN [ok |-> TRUE, val |-> <<>>]
  ELSE IF /\ Len(t) >= Len(RecordHeader) + 2
          /\ SubSeq(t, 1, Len(RecordHeader)) = RecordHeader
          /\ SubSeq(t, Len(t) - 1, Len(t)) = <<Quote, "}">>
    THEN JsonUnescape(SubSeq(t, Len(RecordHeader) + 1, Len(t) - 2))
    ELSE [ok |-> FALSE, val |-> <<>>]

\* load_partial_result as it would be without the os.path.isfile test:
\* open() on a missing file raises
load_partial_result_Unguarded(dir, step_name) ==
  IF dir[step_name].exists
    THEN LET data == JsonLoadRecord(dir[step_name].text)
         IN IF data.ok THEN [raised |-> "none", ret |-> Some(data.val)]
            ELSE [raised |-> "JSONDecodeError", ret |-> None]
    ELSE [raised |-> "FileNotFoundError", ret |-> None]

\* load_partial_result: the value returned, or the exception raised
load_partial_result(dir, step_name) ==
  IF dir[step_name].exists
    THEN LET data == JsonLoadRecord(dir[step_name].text)
         IN IF data.ok THEN [raised |-> "none", ret |-> Some(data.val)]
            ELSE [raised |-> "JSONDecodeError", ret |-> None]
    ELSE [raised |-> "none", ret |-> None]

\* outcomes of the write in save_partial_result: it succeeds, open() fails
\* and leaves the file alone, or the write fails after open() truncated it
SaveOutcomes == {"ok", "open_failed", "write_failed"}

\* save_partial_result as it would be if get_filepath gave every step the
\* same file
save_partial_result_OneFile(dir, step_name, content, io) ==
  IF io = "ok"
    THEN [raised |-> "none",
          dir |-> [dir EXCEPT !["research_questions"] = File(RecordText(content))]]
  ELSE IF io = "open_failed"
    THEN [raised |-> "OSError", dir |-> dir]
  ELSE [raised |-> "OSError", dir |-> [dir EXCEPT !["research_questions"] = File(<<"{">>)]]

save_partial_result(dir, step_name, content, io) ==
  IF io = "ok"
    THEN [raised |-> "none", dir |-> [dir EXCEPT ![step_name] = File(RecordText(content))]]
  ELSE IF io = "open_failed"
    THEN [raised |-> "OSError", dir |-> dir]
  ELSE [raised |-> "OSError", dir |-> [dir EXCEPT ![step_name] = File(<<"{">>)]]

\* ---------------------------------------------------------------------------
\* Failure policy
\* ---------------------------------------------------------------------------
\* the fallback table of handle_step_failure, character by character
QuestionsFallback ==
  <<"W", "h", "a", "t", SP, "a", "r", "e", SP, "t", "h", "e", SP, "c", "u",
    "r", "r", "e", "n", "t", SP, "b", "e", "s", "t", SP, "p", "r", "a", "c",
    "t", "i", "c", "e", "s", SP, "f", "o", "r", SP, "t", "h", "i", "s", SP,
    "u", "s", "e", SP, "c", "a", "s", "e", "?", NL, "W", "h", "a", "t", SP,
    "a", "r", "e", SP, "c", "o", "m", "m", "o", "n", SP, "p", "i", "t", "f",
    "a", "l", "l", "s", SP, "t", "o", SP, "a", "v", "o", "i", "d", "?">>

ResearchFallbackContent ==
  <<"R", "e", "s", "e", "a", "r", "c", "h", SP, "u", "n", "a", "v", "a", "i",
    "l", "a", "b", "l", "e", SP, "d", "u", "e", SP, "t", "o", SP, "A", "P",
    "I", SP, "e", "r", "r", "o", "r", ".", SP, "P", "l", "e", "a", "s", "e",
    SP, "r", "e", "v", "i", "e", "w", SP, "m", "a", "n", "u", "a", "l", "l",
    "y", ".">>

VisualFallback ==
  <<"V", "i", "s", "u", "a", "l", SP, "s", "u", "g", "g", "e", "s", "t", "i",
    "o", "n", "s", SP, "u", "n", "a", "v", "a", "i", "l", "a", "b", "l", "e",
    SP, "d", "u", "e", SP, "t", "o", SP, "p", "r", "o", "c", "e", "s", "s",
    "i", "n", "g", SP, "e", "r", "r", "o", "r", ".">>

\* ---------------------------------------------------------------------------
\* Python values held by main: a str, a list of str, or the research dict
\* ---------------------------------------------------------------------------
Unset == [kind |-> "unset", str |-> <<>>, list |-> <<>>, content |-> <<>>, citations |-> <<>>]
StrV(s) == [kind |-> "str", str |-> s, list |-> <<>>, content |-> <<>>, citations |-> <<>>]
ListV(l) == [kind |-> "list", str |-> <<>>, list |-> l, content |-> <<>>, citations |-> <<>>]
DictV(c, cs) == [kind |-> "dict", str |-> <<>>, list |-> <<>>, content |-> c, citations |-> cs]

\* json.dumps of one citation of the research dict; title None gives null
CitationJson(c) ==
  <<"{", "url:", c.url, ",", "title:", IF c.title = "None" THEN "null" ELSE c.title>>
  \o <<",", "snippet:", "null", ",", "relevance_score:", "null", "}">>

RECURSIVE CitationsJson(_)
CitationsJson(cs) ==
  IF cs = <<>> THEN <<>>
  ELSE IF Len(cs) = 1 THEN CitationJson(cs[1])
  ELSE CitationJson(cs[1]) \o <<",">> \o CitationsJson(Tail(cs))

\* json.dumps({'content': ..., 'citations': [...]})
JsonDumpsResearch(content, citations) ==
  <<"{", "content:">> \o JsonDumpsStr(content) \o <<",", "citations:", "[">>
  \o CitationsJson(citations) \o <<"]", "}">>

\* ---------------------------------------------------------------------------
\* Structured documents and their JSON text
\* ---------------------------------------------------------------------------
\* the JSON text of a document is a sequence of pieces: a key with its
\* colon, a str value with its quotes, null, a number, a bracket, a comma
Key(k) == <<k>>
Atom(a) == IF a = "None" THEN <<"null">> ELSE <<a>>

\* json.dumps of a list: the items' texts separated by commas, in brackets
RECURSIVE JsonItems(_)
JsonItems(texts) ==
  IF texts = <<>> THEN <<>>
  ELSE IF Len(texts) = 1 THEN texts[1]
  ELSE texts[1] \o <<",">> \o JsonItems(Tail(texts))

JsonList(texts) == <<"[">> \o JsonItems(texts) \o <<"]">>

\* a relevance score: the key is missing, its value is null, or it is a
\* number, kept in tenths (7 is 0.7)
NoScore == [has |-> "missing", tenths |-> 0]
NullScore == [has |-> "null", tenths |-> 0]
Score(n) == [has |-> "number", tenths |-> n]

ScoreJson(sc) ==
  IF sc.has = "missing" THEN <<>>
  ELSE <<",">> \o Key("relevance_score:")
       \o (IF sc.has = "null" THEN <<"null">> ELSE <<ToString(sc.tenths)>>)

\* a citation of a structured use case
ScoredCitationJson(c) ==
  <<"{">> \o Key("url:") \o Atom(c.url) \o <<",">> \o Key("title:") \o Atom(c.title)
  \o ScoreJson(c.relevance_score) \o <<"}">>

\* a resource: a dict with a type (or "missing" for no type key), or a
\* plain str (the legacy format)
ResourceJson(r) ==
  IF r.form = "str" THEN Atom(r.url)
  ELSE <<"{">> \o Key("url:") \o Atom(r.url) \o <<",">> \o Key("title:") \o Atom(r.title)
       \o (IF r.type = "missing" THEN <<>> ELSE <<",">> \o Key("type:") \o Atom(r.type))
       \o <<"}">>

UseCaseStepJson(st) ==
  <<"{">> \o Key("step_title:") \o Atom(st.step_title) \o <<",">>
  \o Key("step_instructions:") \o Atom(st.step_instructions) \o <<",">>
  \o Key("sub_steps:")
  \o (IF st.sub_steps = <<>> THEN <<"null">>
      ELSE JsonList([i \in 1..Len(st.sub_steps) |-> Atom(st.sub_steps[i])]))
  \o <<",">> \o Key("advice:") \o Atom(st.advice) \o <<"}">>

CitationsFieldJson(cf) ==
  IF cf.state = "absent" THEN <<>>
  ELSE <<",">> \o Key("citations:")
       \o (IF cf.state = "null" THEN <<"null">>
           ELSE JsonList([i \in 1..Len(cf.items) |-> ScoredCitationJson(cf.items[i])]))

\* json.dumps(structured_dict, indent=2) of a UseCaseStructuredOutput dict;
\* of the line breaks of indent=2 the first and the last are kept
JsonDumpsUseCase(d) ==
  <<"{", NL>> \o Key("title:") \o Atom(d.title) \o <<",">>
  \o Key("time_to_complete:") \o Atom(d.time_to_complete) \o <<",">>
  \o Key("description:") \o Atom(d.description) \o <<",">>
  \o Key("steps:") \o JsonList([i \in 1..Len(d.steps) |-> UseCaseStepJson(d.steps[i])])
  \o <<",">>
  \o Key("resources:")
  \o JsonList([i \in 1..Len(d.resources) |-> ResourceJson(d.resources[i])]) \o <<",">>
  \o Key("metadata:") \o Atom(d.metadata)
  \o CitationsFieldJson(d.citations) \o <<NL, "}">>

DemoStepJson(st) ==
  <<"{">> \o Key("action:") \o Atom(st.action) \o <<",">>
  \o Key("code_or_prompt:") \o Atom(st.code_or_prompt) \o <<"}">>

\* json.dumps(solution.model_dump(), indent=2) of an ExampleSolutionOutput
JsonDumpsSolution(e) ==
  <<"{", NL>> \o Key("metadata:") \o Atom(e.metadata) \o <<",">>
  \o Key("solution:") \o <<"{">> \o Key("title:") \o Atom(e.title) \o <<",">>
  \o Key("scenario:") \o Atom(e.scenario) \o <<",">>
  \o Key("steps:") \o JsonList([i \in 1..Len(e.steps) |-> DemoStepJson(e.steps[i])])
  \o <<",">>
  \o Key("variations:")
  \o JsonList([i \in 1..Len(e.variations) |-> Atom(e.variations[i])]) \o <<"}", ",">>
  \o Key("demo_script:") \o Atom(e.demo_script) \o <<NL, "}">>

\* the placeholder of the variants below
GenericFallback == <<"U", "n", "a", "v", "a", "i", "l", "a", "b", "l", "e", ".">>

\* handle_step_failure as it would be with a placeholder for every step
\* in place of the re-raise
handle_step_failure_AlwaysFallback(dir, step_name, error) ==
  LET partial_result == load_partial_result(dir, step_name)
  IN IF partial_result.raised # "none"
       THEN [raised |-> partial_result.raised, ret |-> None, via |-> "load"]
     ELSE IF Truthy(partial_result.ret)
       THEN [raised |-> "none", ret |-> partial_result.ret, via |-> "cache"]
     ELSE [raised |-> "none", ret |-> Some(GenericFallback), via |-> "fallback"]

\* handle_step_failure as it would be with the fallback table consulted
\* before the cache
handle_step_failure_TableFirst(dir, step_name, error) ==
  LET partial_result == load_partial_result(dir, step_name)
  IN IF step_name \in FallbackSteps
       THEN [raised |-> "none", ret |-> Some(GenericFallback), via |-> "fallback"]
     ELSE IF step_name \in NoFallbackSteps
       THEN [raised |-> error, ret |-> None, via |-> "raise"]
     ELSE IF partial_result.raised # "none"
       THEN [raised |-> partial_result.raised, ret |-> None, via |-> "load"]
     ELSE [raised |-> "none", ret |-> partial_result.ret, via |-> "cache"]

\* handle_step_failure: cached content first, then the fallback table, then
\* re-raise for the steps that cannot be skipped
handle_step_failure(dir, step_name, error) ==
  LET partial_result == load_partial_result(dir, step_name)
  IN IF partial_result.raised # "none"
       THEN [raised |-> partial_result.raised, ret |-> None, via |-> "load"]
     ELSE IF Truthy(partial_result.ret)
       THEN [raised |-> "none", ret |-> partial_result.ret, via |-> "cache"]
     ELSE IF step_name = "research_questions"
       THEN [raised |-> "none", ret |-> Some(QuestionsFallback), via |-> "fallback"]
     ELSE IF step_name = "deep_research"
       THEN [raised |-> "none",
             ret |-> Some(JsonDumpsResearch(ResearchFallbackContent, <<>>)),
             via |-> "fallback"]
     ELSE IF step_name = "visual_suggestions"
       THEN [raised |-> "none", ret |-> Some(VisualFallback), via |-> "fallback"]
     ELSE IF step_name \in NoFallbackSteps
       THEN [raised |-> error, ret |-> None, via |-> "raise"]
     ELSE [raised |-> "none", ret |-> None, via |-> "none"]

\* ---------------------------------------------------------------------------
\* The external collaborators: what one call can answer
\* ---------------------------------------------------------------------------
\* USE_CASE_CONFIG, the dict attached as metadata
Config == "USE_CASE_CONFIG"

\* Stage 1, chat_completion_create: the call fails, or answers a text
Stage1Replies ==
  { [ok |-> FALSE, text |-> <<>>],
    [ok |-> TRUE, text |-> <<SP, "a", SP, NL, NL, "b", NL>>],
    [ok |-> TRUE, text |-> <<SP, NL>>] }

\* Stage 2, the research call: it fails, or answers a text and source URLs;
\* every URL's title lookup gives a title or None
Stage2Replies ==
  { [ok |-> FALSE, text |-> <<>>, urls |-> <<>>],
    [ok |-> TRUE, text |-> <<"r", NL>>, urls |-> <<>>],
    [ok |-> TRUE, text |-> <<"r", NL>>, urls |-> <<"u1">>] }

TitleOutcomes == {"None", "t1"}

\* Stage 3, first call (citation scoring): a failure, a text that is no
\* JSON, or the scored result
Official(type) == [form |-> "dict", type |-> type, url |-> "doc", title |-> "Docs"]
Cited(url, sc) == [url |-> url, title |-> "Src", relevance_score |-> sc]

ScoringReplies ==
  { [kind |-> "fail", official_resources |-> <<>>, citations |-> <<>>],
    [kind |-> "notjson", official_resources |-> <<>>, citations |-> <<>>],
    [kind |-> "ok", official_resources |-> <<Official("mode"), Official("tool")>>,
     citations |-> <<Cited("c3", Score(3)), Cited("c9", Score(9)), Cited("c0", NoScore),
                     Cited("c7", Score(7))>>],
    [kind |-> "ok", official_resources |-> <<>>,
     citations |-> <<Cited("cn", NullScore)>>] }

\* Stages 3 and 4, chat_completion_parse with UseCaseStructuredOutput: a
\* failure, a response that does not validate, a refusal, or a parsed
\* object (model_dump() gives every field of the schema)
UseCaseStepOf(title) ==
  [step_title |-> title, step_instructions |-> "Do it", sub_steps |-> <<>>,
   advice |-> "None"]

ParsedUseCase ==
  [title |-> "Plan", time_to_complete |-> "20 minutes", description |-> "About",
   steps |-> <<UseCaseStepOf("s1"), UseCaseStepOf("s2")>>,
   resources |-> <<[form |-> "str", type |-> "missing", url |-> "link", title |-> "None"]>>,
   metadata |-> "None",
   citations |-> [state |-> "null", items |-> <<>>]]

\* Citation.relevance_score is Optional[float] = None: a parsed object can
\* carry a citation without a score, and model_dump() gives it as null
ParsedUnscored ==
  [ParsedUseCase EXCEPT !.citations = [state |-> "list",
                                       items |-> <<Cited("cn", NullScore)>>]]

ParseReplies ==
  { [kind |-> "fail", parsed |-> ParsedUseCase],
    [kind |-> "invalid", parsed |-> ParsedUseCase],
    [kind |-> "refusal", parsed |-> ParsedUseCase],
    [kind |-> "ok", parsed |-> ParsedUseCase],
    [kind |-> "ok", parsed |-> ParsedUnscored] }

\* Stage 5, chat_completion_parse with ExampleSolutionOutput
DemoStepOf(a) == [action |-> a, code_or_prompt |-> "code"]

SolutionOf(steps) ==
  [metadata |-> "model", title |-> "Demo", scenario |-> "Scene", steps |-> steps,
   variations |-> <<>>, demo_script |-> "Script"]

SolutionReplies ==
  { [kind |-> "fail", parsed |-> SolutionOf(<<>>)],
    [kind |-> "refusal", parsed |-> SolutionOf(<<>>)],
    [kind |-> "ok", parsed |-> SolutionOf(<<DemoStepOf("d1"), DemoStepOf("d2")>>)],
    [kind |-> "ok", parsed |-> SolutionOf(<<DemoStepOf("d1")>>)] }

\* Stage 6, chat_completion_create
Stage6Replies ==
  { [ok |-> FALSE, text |-> <<>>],
    [ok |-> TRUE, text |-> <<"v", NL>>],
    [ok |-> TRUE, text |-> <<SP>>] }

\* ---------------------------------------------------------------------------
\* The stages
\* ---------------------------------------------------------------------------
\* what the computation of a stage (everything after the cache check and
\* before the save) comes to: an exception, or the value to return and the
\* content to save; ncalls counts the calls made to the collaborator, and
\* refusal tells that the structured response was flagged as a refusal
Raise(err, at, n) ==
  [raised |-> err, at |-> at, value |-> Unset, content |-> <<>>, ncalls |-> n,
   warned |-> FALSE, refusal |-> FALSE]
Computed(v, c, n, w) ==
  [raised |-> "none", at |-> "none", value |-> v, content |-> c, ncalls |-> n,
   warned |-> w, refusal |-> FALSE]

\* the same with message.refusal set
Refused(attempt) == [attempt EXCEPT !.refusal = TRUE]

\* how a call of a stage function ends: the exception raised and where, or
\* the value returned (hit: it is the cached content); dir is the job
\* directory it leaves
Ended(raised, at, hit, value, dir, ncalls, warned) ==
  [raised |-> raised, at |-> at, hit |-> hit, value |-> value, dir |-> dir,
   ncalls |-> ncalls, warned |-> warned, refusal |-> FALSE]

\* a stage as it would be if it returned its result without saving it
SaveAndReturn_Unsaved(dir, step_name, attempt, io) ==
  [Ended("none", "none", FALSE, attempt.value, dir, attempt.ncalls, attempt.warned)
     EXCEPT !.refusal = attempt.refusal]

\* a stage as it would be if it returned a refusal placeholder without
\* saving it
SaveAndReturn_RefusalUnsaved(dir, step_name, attempt, io) ==
  LET w == save_partial_result(dir, step_name, attempt.content, io)
      e == IF attempt.refusal
             THEN Ended("none", "none", FALSE, attempt.value, dir, attempt.ncalls,
                        attempt.warned)
           ELSE IF w.raised # "none"
             THEN Ended(w.raised, "save", FALSE, Unset, w.dir, attempt.ncalls,
                        attempt.warned)
             ELSE Ended("none", "none", FALSE, attempt.value, w.dir, attempt.ncalls,
                        attempt.warned)
  IN [e EXCEPT !.refusal = attempt.refusal]

\* the save at the end of a stage and what the stage returns after it
SaveAndReturn(dir, step_name, attempt, io) ==
  LET w == save_partial_result(dir, step_name, attempt.content, io)
      e == IF w.raised # "none"
             THEN Ended(w.raised, "save", FALSE, Unset, w.dir, attempt.ncalls,
                        attempt.warned)
             ELSE Ended("none", "none", FALSE, attempt.value, w.dir, attempt.ncalls,
                        attempt.warned)
  IN [e EXCEPT !.refusal = attempt.refusal]

\* a stage as it would be without its cache check
StageTemplate_NoCacheCheck(dir, step_name, attempts) ==
  UNION { IF a.raised # "none"
            THEN {[Ended(a.raised, a.at, FALSE, Unset, dir, a.ncalls, a.warned)
                             EXCEPT !.refusal = a.refusal]}
            ELSE {SaveAndReturn(dir, step_name, a, io) : io \in SaveOutcomes}
          : a \in attempts }

\* a stage as it would be if it tested `existing_content is not None`
StageTemplate_HitOnAnyRecord(dir, step_name, attempts) ==
  LET existing_content == load_partial_result(dir, step_name)
  IN IF existing_content.raised # "none"
       THEN {Ended(existing_content.raised, "load", FALSE, Unset, dir, 0, FALSE)}
     ELSE IF ~existing_content.ret.none
       THEN {Ended("none", "none", TRUE, StrV(existing_content.ret.str), dir, 0, FALSE)}
     ELSE UNION { IF a.raised # "none"
                    THEN {[Ended(a.raised, a.at, FALSE, Unset, dir, a.ncalls, a.warned)
                             EXCEPT !.refusal = a.refusal]}
                    ELSE {SaveAndReturn(dir, step_name, a, io) : io \in SaveOutcomes}
                  : a \in attempts }

\* the template every stage follows: return the cached content if there is
\* any, else compute, save and return.  attempts holds one computation per
\* answer the collaborator can give; the result is the set of ways the call
\* can end.
StageTemplate(dir, step_name, attempts) ==
  LET existing_content == load_partial_result(dir, step_name)
  IN IF existing_content.raised # "none"
       THEN {Ended(existing_content.raised, "load", FALSE, Unset, dir, 0, FALSE)}
     ELSE IF Truthy(existing_content.ret)
       THEN {Ended("none", "none", TRUE, StrV(existing_content.ret.str), dir, 0, FALSE)}
     ELSE UNION { IF a.raised # "none"
                    THEN {[Ended(a.raised, a.at, FALSE, Unset, dir, a.ncalls, a.warned)
                             EXCEPT !.refusal = a.refusal]}
                    ELSE {SaveAndReturn(dir, step_name, a, io) : io \in SaveOutcomes}
                  : a \in attempts }

\* [q.strip() for q in questions if q.strip()]
RECURSIVE StripNonEmpty(_)
StripNonEmpty(l) ==
  IF l = <<>> THEN <<>>
  ELSE IF Strip(Head(l)) = <<>> THEN StripNonEmpty(Tail(l))
  ELSE <<Strip(Head(l))>> \o StripNonEmpty(Tail(l))

QuestionsAttempt(reply) ==
  LET questions == StripNonEmpty(SplitLines(Strip(reply.text)))
  IN IF reply.ok THEN Computed(ListV(questions), JoinLines(questions), 1, FALSE)
     ELSE Raise("APIError", "call", 1)

\* the cached content is returned split into lines
identify_research_questions(dir) ==
  { IF r.hit THEN [r EXCEPT !.value = ListV(SplitLines(r.value.str))] ELSE r :
      r \in StageTemplate(dir, "research_questions",
                          {QuestionsAttempt(reply) : reply \in Stage1Replies}) }

\* iterating research_questions: a list gives its items, a str its characters
QuestionItems(research_questions) ==
  IF research_questions.kind = "list" THEN research_questions.list
  ELSE Chars(research_questions.str)

\* titles[i] is what fetch_url_title gave for the i-th URL
ResearchAttempt(reply, titles) ==
  LET citations == [i \in 1..Len(reply.urls) |->
                      [url |-> reply.urls[i], title |-> titles[i]]]
      content == Strip(reply.text)
  IN IF reply.ok
       THEN Computed(DictV(content, citations), JsonDumpsResearch(content, citations),
                     1, FALSE)
       ELSE Raise("APIError", "call", 1)

deep_research(dir, research_questions) ==
  StageTemplate(dir, "deep_research",
    UNION { {ResearchAttempt(reply, titles) :
               titles \in [1..Len(reply.urls) -> TitleOutcomes]} :
            reply \in Stage2Replies })

\* the filter as it would be with 1 as the default of a missing score
RECURSIVE KeepRelevant_DefaultOne(_)
KeepRelevant_DefaultOne(cs) ==
  IF cs = <<>> THEN <<>>
  ELSE LET sc == Head(cs).relevance_score
           n == IF sc.has = "missing" THEN 10 ELSE sc.tenths
       IN IF n >= 7 THEN <<Head(cs)>> \o KeepRelevant_DefaultOne(Tail(cs))
          ELSE KeepRelevant_DefaultOne(Tail(cs))

\* c.get('relevance_score', 0) >= 0.7; comparing None raises TypeError
RECURSIVE KeepRelevant(_)
KeepRelevant(cs) ==
  IF cs = <<>> THEN <<>>
  ELSE LET sc == Head(cs).relevance_score
           n == IF sc.has = "missing" THEN 0 ELSE sc.tenths
       IN IF n >= 7 THEN <<Head(cs)>> \o KeepRelevant(Tail(cs))
          ELSE KeepRelevant(Tail(cs))

RefusalOf(resources, citations) ==
  [title |-> "Refusal", time_to_complete |-> "0 minutes",
   description |-> "The model refused to comply.", steps |-> <<>>,
   resources |-> resources, metadata |-> Config, citations |-> citations]

\* Stage 3 as it would be without the refusal test: message.parsed is None
\* and model_dump() raises
RefineAttempt_NoRefusalTest(scoring, reply) ==
  LET official_resources == scoring.official_resources
      other_citations == KeepRelevant(scoring.citations)
      structured_dict ==
        IF reply.kind = "refusal"
          THEN RefusalOf(official_resources, [state |-> "list", items |-> <<>>])
          ELSE [reply.parsed EXCEPT !.metadata = Config,
                                    !.resources = official_resources,
                                    !.citations = [state |-> "list",
                                                   items |-> other_citations]]
      refined_draft_json == JsonDumpsUseCase(structured_dict)
  IN IF scoring.kind = "fail" THEN Raise("APIError", "call", 1)
     ELSE IF scoring.kind = "notjson" THEN Raise("JSONDecodeError", "compute", 1)
     ELSE IF \E i \in 1..Len(scoring.citations) :
               scoring.citations[i].relevance_score.has = "null"
       THEN Raise("TypeError", "compute", 1)
     ELSE IF reply.kind = "fail" THEN Raise("APIError", "call", 2)
     ELSE IF reply.kind = "invalid" THEN Raise("ValidationError", "call", 2)
     ELSE IF reply.kind = "refusal" THEN Refused(Raise("AttributeError", "compute", 2))
     ELSE Computed(StrV(refined_draft_json), refined_draft_json, 2, FALSE)

RefineAttempt(scoring, reply) ==
  LET official_resources == scoring.official_resources
      other_citations == KeepRelevant(scoring.citations)
      structured_dict ==
        IF reply.kind = "refusal"
          THEN RefusalOf(official_resources, [state |-> "list", items |-> <<>>])
          ELSE [reply.parsed EXCEPT !.metadata = Config,
                                    !.resources = official_resources,
                                    !.citations = [state |-> "list",
                                                   items |-> other_citations]]
      refined_draft_json == JsonDumpsUseCase(structured_dict)
  IN IF scoring.kind = "fail" THEN Raise("APIError", "call", 1)
     ELSE IF scoring.kind = "notjson" THEN Raise("JSONDecodeError", "compute", 1)
     ELSE IF \E i \in 1..Len(scoring.citations) :
               scoring.citations[i].relevance_score.has = "null"
       THEN Raise("TypeError", "compute", 1)
     ELSE IF reply.kind = "fail" THEN Raise("APIError", "call", 2)
     ELSE IF reply.kind = "invalid" THEN Raise("ValidationError", "call", 2)
     ELSE IF reply.kind = "refusal"
       THEN Refused(Computed(StrV(refined_draft_json), refined_draft_json, 2, FALSE))
     ELSE Computed(StrV(refined_draft_json), refined_draft_json, 2, FALSE)

\* a str as raw_research (a cached or fallback result) is wrapped as the
\* content of a research dict without citations; both only feed the prompts
refine_use_case_with_reasoning(dir, raw_research) ==
  StageTemplate(dir, "refined_draft",
    {RefineAttempt(scoring, reply) : scoring \in ScoringReplies, reply \in ParseReplies})

PolishAttempt(reply) ==
  LET final_struct ==
        IF reply.kind = "refusal"
          THEN RefusalOf(<<>>, [state |-> "absent", items |-> <<>>])
          ELSE [reply.parsed EXCEPT !.metadata = Config]
      final_json == JsonDumpsUseCase(final_struct)
  IN IF reply.kind = "fail" THEN Raise("APIError", "call", 1)
     ELSE IF reply.kind = "invalid" THEN Raise("ValidationError", "call", 1)
     ELSE IF reply.kind = "refusal"
       THEN Refused(Computed(StrV(final_json), final_json, 1, FALSE))
     ELSE Computed(StrV(final_json), final_json, 1, FALSE)

finalize_use_case(dir, refined_json) ==
  StageTemplate(dir, "final_use_case", {PolishAttempt(reply) : reply \in ParseReplies})

\* the documents the assembler's harness hands to convert_json_to_markdown:
\* lists of citations and of resources in every order, steps with sub-steps
Res(type, url) == [form |-> "dict", type |-> type, url |-> url, title |-> "Docs"]

CitationPool ==
  {Cited("c3", Score(3)), Cited("c9", Score(9)), Cited("cn", NullScore),
   Cited("c7", Score(7))}

ResourcePool ==
  {Res("tool", "t1"), Res("tool", "t2"), Res("language", "l1"), Res("mode", "m1")}

\* the lists of at most n different members of pool
RECURSIVE ListsOf(_, _)
ListsOf(pool, n) ==
  IF n = 0 THEN {<<>>}
  ELSE LET shorter == ListsOf(pool, n - 1)
       IN shorter \cup
          {Append(p[1], p[2]) :
             p \in {q \in shorter \X pool : \A i \in 1..Len(q[1]) : q[1][i] # q[2]}}

CitationLists ==
  ListsOf(CitationPool, MaxItems)
  \cup {<<Cited("c3", Score(3)), Cited("c9", Score(9)), Cited("cn", NullScore),
          Cited("c7", Score(7))>>,
        <<Cited("c3", Score(3)), Cited("c9", Score(9)), Cited("c7", Score(7))>>}

ResourceLists ==
  ListsOf(ResourcePool, MaxItems)
  \cup {<<Res("mode", "m1"), Res("tool", "t1"), Res("language", "l1"), Res("tool", "t2")>>}

GuideSteps ==
  <<[step_title |-> "s1", step_instructions |-> "Do it", sub_steps |-> <<"a", "b">>,
     advice |-> "Tip"],
    UseCaseStepOf("s2")>>

Guide(steps, resources, metadata, citations) ==
  [title |-> "Guide", time_to_complete |-> "20 minutes", description |-> "About",
   steps |-> steps, resources |-> resources, metadata |-> metadata,
   citations |-> [state |-> "list", items |-> citations]]

AssemblerDocs ==
  {Guide(GuideSteps, <<>>, m, cs) : m \in {Config, "None"}, cs \in CitationLists}
  \cup {Guide(GuideSteps, rs, m, <<>>) : m \in {Config, "None"}, rs \in ResourceLists}
  \cup {Guide(st, <<Res("mode", "m1"), Res("tool", "t1")>>, Config, cs) :
          st \in {<<>>, GuideSteps},
          cs \in {<<Cited("c3", Score(3)), Cited("c9", Score(9))>>,
                  <<Cited("cn", NullScore)>>}}

AssemblerExamples ==
  {Unset, StrV(<<>>),
   StrV(JsonDumpsSolution(SolutionOf(<<DemoStepOf("d1"), DemoStepOf("d2")>>)))}

AssemblerVisuals == {Unset, StrV(<<>>), StrV(<<"v">>)}

\* the structured use cases Stages 3 and 4 can write, and json.loads on
\* their texts (the inverse of json.dumps; any other text is no JSON)
UseCaseDocs ==
  {RefusalOf(<<>>, [state |-> "absent", items |-> <<>>])}
  \cup {[r.parsed EXCEPT !.metadata = Config] : r \in ParseReplies}
  \cup {RefusalOf(s.official_resources, [state |-> "list", items |-> <<>>]) :
          s \in {x \in ScoringReplies : x.kind = "ok"}}
  \cup {[r.parsed EXCEPT !.metadata = Config,
                         !.resources = s.official_resources,
                         !.citations = [state |-> "list",
                                        items |-> KeepRelevant(s.citations)]] :
          r \in ParseReplies, s \in {x \in ScoringReplies : x.kind = "ok"}}

UseCaseTexts ==
  {[data |-> d, text |-> JsonDumpsUseCase(d)] : d \in UseCaseDocs \cup AssemblerDocs}

JsonLoadsUseCase(text) ==
  IF \E e \in UseCaseTexts : e.text = text
    THEN [ok |-> TRUE, data |-> (CHOOSE e \in UseCaseTexts : e.text = text).data]
    ELSE [ok |-> FALSE, data |-> RefusalOf(<<>>, [state |-> "absent", items |-> <<>>])]

SolutionDocs == {r.parsed : r \in SolutionReplies}

SolutionTexts == {[data |-> e, text |-> JsonDumpsSolution(e)] : e \in SolutionDocs}

JsonLoadsSolution(text) ==
  IF \E e \in SolutionTexts : e.text = text
    THEN [ok |-> TRUE, data |-> (CHOOSE e \in SolutionTexts : e.text = text).data]
    ELSE [ok |-> FALSE, data |-> SolutionOf(<<>>)]

\* USE_CASE_CONFIG['steps']
ConfigSteps == <<"s1", "s2">>

\* Stage 5 as it would be if a step-count mismatch were an error
SolutionAttempt_MismatchRaises(polished_content, raw_research, reply) ==
  LET polished_data == JsonLoadsUseCase(polished_content.str)
      use_case_steps ==
        IF polished_data.ok
          THEN [i \in 1..Len(polished_data.data.steps) |->
                  polished_data.data.steps[i].step_title]
          ELSE ConfigSteps
      solution == reply.parsed
      solution_json == JsonDumpsSolution(solution)
  IN IF raw_research.kind # "dict" THEN Raise("AttributeError", "prepare", 0)
     ELSE IF reply.kind = "fail" THEN Raise("APIError", "call", 1)
     ELSE IF reply.kind = "refusal" THEN Refused(Raise("AttributeError", "compute", 1))
     ELSE IF Len(solution.steps) # Len(use_case_steps)
       THEN [Raise("ValueError", "compute", 1) EXCEPT !.warned = TRUE]
     ELSE Computed(StrV(solution_json), solution_json, 1, FALSE)

SolutionAttempt(polished_content, raw_research, reply) ==
  LET polished_data == JsonLoadsUseCase(polished_content.str)
      use_case_steps ==
        IF polished_data.ok
          THEN [i \in 1..Len(polished_data.data.steps) |->
                  polished_data.data.steps[i].step_title]
          ELSE ConfigSteps
      solution == reply.parsed
      solution_json == JsonDumpsSolution(solution)
  IN \* raw_research.get('content', ''): a str has no get
     IF raw_research.kind # "dict" THEN Raise("AttributeError", "prepare", 0)
     ELSE IF reply.kind = "fail" THEN Raise("APIError", "call", 1)
     \* a refusal leaves message.parsed None
     ELSE IF reply.kind = "refusal" THEN Refused(Raise("AttributeError", "compute", 1))
     ELSE Computed(StrV(solution_json), solution_json, 1,
                   Len(solution.steps) # Len(use_case_steps))

generate_example_solution(dir, polished_content, raw_research) ==
  StageTemplate(dir, "example_solution",
    {SolutionAttempt(polished_content, raw_research, reply) : reply \in SolutionReplies})

VisualAttempt(reply) ==
  LET suggestions == Strip(reply.text)
  IN IF reply.ok THEN Computed(StrV(suggestions), suggestions, 1, FALSE)
     ELSE Raise("APIError", "call", 1)

suggest_visual_elements(dir, final_use_case_json, example_solution_json) ==
  StageTemplate(dir, "visual_suggestions",
                {VisualAttempt(reply) : reply \in Stage6Replies})

\* ---------------------------------------------------------------------------
\* Document assembler: the markdown as a sequence of pieces
\* ---------------------------------------------------------------------------
\* the groups as they would be with the language group first
ResourceTypes_LanguageFirst == <<"language", "tool", "mode">>

ResourceTypes == <<"tool", "language", "mode">>

TypeHeader(ty) ==
  IF ty = "tool" THEN "### Tool Documentation"
  ELSE IF ty = "language" THEN "### Language Documentation"
  ELSE "### Mode-specific Documentation"

\* resource.get('type', 'tool') for a dict; a str is a tool resource
ResourceType(r) == IF r.form = "str" \/ r.type = "missing" THEN "tool" ELSE r.type

ResourceLine(r) ==
  IF r.form = "str" THEN <<"*", "Official Resource", r.url>> ELSE <<"*", r.title, r.url>>

ResourceGroup(resources, ty) ==
  LET OfType(r) == ResourceType(r) = ty
      group == SelectSeq(resources, OfType)
  IN IF group = <<>> THEN <<>>
     ELSE <<TypeHeader(ty)>> \o Flatten([i \in 1..Len(group) |-> ResourceLine(group[i])])

\* sorted(citations, key=float(relevance_score or default 0), reverse=True):
\* stable, so equal keys keep their input order
SortKey(c) == IF c.relevance_score.has = "missing" THEN 0 ELSE c.relevance_score.tenths

RECURSIVE InsertByScore(_, _)
InsertByScore(c, sorted) ==
  IF sorted = <<>> THEN <<c>>
  ELSE IF SortKey(Head(sorted)) >= SortKey(c)
    THEN <<Head(sorted)>> \o InsertByScore(c, Tail(sorted))
    ELSE <<c>> \o sorted

RECURSIVE SortByScore(_)
SortByScore(cs) ==
  IF cs = <<>> THEN <<>>
  ELSE InsertByScore(cs[Len(cs)], SortByScore(SubSeq(cs, 1, Len(cs) - 1)))

\* the steps as they would be rendered with enumerate counting from 0
StepLines_FromZero(steps) ==
  Flatten([i \in 1..Len(steps) |->
    <<"### Step", ToString(i - 1), steps[i].step_title, steps[i].step_instructions>>
    \o Flatten([j \in 1..Len(steps[i].sub_steps) |->
                  <<ToString(j - 1), steps[i].sub_steps[j]>>])
    \o (IF steps[i].advice = "None" THEN <<>> ELSE <<steps[i].advice>>)])

StepLines(steps) ==
  Flatten([i \in 1..Len(steps) |->
    <<"### Step", ToString(i), steps[i].step_title, steps[i].step_instructions>>
    \o Flatten([j \in 1..Len(steps[i].sub_steps) |->
                  <<ToString(j), steps[i].sub_steps[j]>>])
    \o (IF steps[i].advice = "None" THEN <<>> ELSE <<steps[i].advice>>)])

SolutionLines(e) ==
  <<"## Example Solution:", e.title, "### Scenario", e.scenario, "### Demo Steps">>
  \o Flatten([i \in 1..Len(e.steps) |->
                <<ToString(i), e.steps[i].action, e.steps[i].code_or_prompt>>])
  \o (IF e.variations = <<>> THEN <<>> ELSE <<"### Variations">> \o e.variations)
  \o <<"### Demo Script", e.demo_script>>

\* the test as it would be with "is not None"
Given_NotNone(v) == v.kind = "str"

\* "if example_solution_json:", "if visual_suggestions:": an Optional[str]
\* argument is used when it is neither None nor the empty string
Given(v) == v.kind = "str" /\ v.str # <<>>

\* any exception inside gives the empty string
convert_json_to_markdown(json_content, example_solution_json, visual_suggestions) ==
  LET loaded == JsonLoadsUseCase(json_content.str)
      data == loaded.data
      example == JsonLoadsSolution(example_solution_json.str)
      badType == \E i \in 1..Len(data.resources) :
                   ResourceType(data.resources[i]) \notin
                     {ResourceTypes[k] : k \in 1..Len(ResourceTypes)}
      hasCitations == data.citations.state = "list" /\ data.citations.items # <<>>
      badScore == hasCitations /\ \E i \in 1..Len(data.citations.items) :
                    data.citations.items[i].relevance_score.has = "null"
      hasExample == Given(example_solution_json)
      hasVisual == Given(visual_suggestions)
  IN IF ~loaded.ok \/ badType \/ badScore \/ (hasExample /\ ~example.ok) THEN <<>>
     ELSE <<"#", data.title, "**Time to Complete:**", data.time_to_complete,
            "## Description", data.description, "## Steps">>
          \o StepLines(data.steps)
          \o (IF data.resources = <<>> THEN <<>>
              ELSE <<"## Resources">>
                   \o Flatten([k \in 1..Len(ResourceTypes) |->
                                 ResourceGroup(data.resources, ResourceTypes[k])]))
          \o (IF ~hasCitations THEN <<>>
              ELSE LET sorted_citations == SortByScore(data.citations.items)
                   IN <<"## Additional References">>
                      \o Flatten([i \in 1..Len(sorted_citations) |->
                           <<"*", sorted_citations[i].title, sorted_citations[i].url>>]))
          \o (IF hasExample THEN SolutionLines(example.data) ELSE <<>>)
          \o (IF hasVisual THEN <<"## Visual Elements">> \o visual_suggestions.str
              ELSE <<>>)
          \o (IF data.metadata = "None" THEN <<>> ELSE <<"## Metadata", data.metadata>>)

\* ---------------------------------------------------------------------------
\* Stage 2's title lookups: one fetch_url_title task per returned URL
\* ---------------------------------------------------------------------------
UrlPool == {"u1", "u2", "u3"}

\* response.citations
UrlLists == ListsOf(UrlPool, MaxUrls)

\* soup.title.string.strip() of the page at url
PageTitle(url) == IF url = "u1" THEN "t1" ELSE IF url = "u2" THEN "t2" ELSE "t3"

\* how a lookup goes: status 200 and a title, status 200 and no title,
\* another status, a timeout (5 s), any other exception of the request
LookupOutcomes == {"title", "no_title", "status", "timeout", "error"}

\* the lookup as it would be without its try/except
fetch_url_title_Uncaught(url, how) ==
  IF how \in {"timeout", "error"}
    THEN [raised |-> IF how = "timeout" THEN "TimeoutError" ELSE "ClientError",
          ret |-> "None"]
    ELSE [raised |-> "none", ret |-> IF how = "title" THEN PageTitle(url) ELSE "None"]

\* the title, or None: every exception is caught and logged
fetch_url_title(url, how) ==
  [raised |-> "none", ret |-> IF how = "title" THEN PageTitle(url) ELSE "None"]

PendingTask == [done |-> FALSE, how |-> "none", raised |-> "none", ret |-> "None"]

\* gather as it would be if it listed the results as the tasks complete
gather_AsCompleted(tasks, completed) ==
  [raised |-> "none", ret |-> [k \in 1..Len(completed) |-> tasks[completed[k]].ret]]

\* await asyncio.gather(*title_tasks): the results in the order of the
\* tasks, whatever the order they completed in; the first exception of a
\* task is raised to the caller
gather(tasks, completed) ==
  LET failed == {k \in 1..Len(completed) : tasks[completed[k]].raised # "none"}
  IN IF failed # {}
       THEN [raised |-> tasks[completed[CHOOSE k \in failed : \A l \in failed : k <= l]].raised,
             ret |-> <<>>]
       ELSE [raised |-> "none", ret |-> [i \in 1..Len(tasks) |-> tasks[i].ret]]

\* ---------------------------------------------------------------------------
\* The parallel research variant of Stage 2: one research_question task per
\* question
\* ---------------------------------------------------------------------------
QuestionPool == {"q1", "q2", "q3"}

QuestionLists == ListsOf(QuestionPool, MaxQuestions)

\* what the collaborator answers to a question, and the source it cites
AnswerOf(q) == IF q = "q1" THEN "a1" ELSE IF q = "q2" THEN "a2" ELSE "a3"
SourceOf(q) == IF q = "q1" THEN "u1" ELSE IF q = "q2" THEN "u2" ELSE "u3"

\* how the call for one question goes: an answer without or with a cited
\* source, an API error, any other exception
QuestionOutcomes == {"answered", "cited", "api_error", "error"}

\* the task as it would be without its try/except
research_question_Uncaught(question, how) ==
  IF how \in {"api_error", "error"}
    THEN [raised |-> IF how = "api_error" THEN "APIError" ELSE "Exception",
          ret |-> [question |-> question, answer |-> <<>>, citations |-> <<>>]]
    ELSE [raised |-> "none",
          ret |-> [question |-> question, answer |-> <<AnswerOf(question)>>,
                   citations |-> IF how = "cited"
                                   THEN <<[url |-> SourceOf(question),
                                           title |-> PageTitle(SourceOf(question))]>>
                                   ELSE <<>>]]

\* the answer and the citations of one question; any exception gives the
\* error string as the answer and no citations
research_question(question, how) ==
  [raised |-> "none",
   ret |-> IF how \in {"api_error", "error"}
             THEN [question |-> question,
                   answer |-> <<"Error during research:",
                                IF how = "api_error" THEN "APIError" ELSE "Exception">>,
                   citations |-> <<>>]
             ELSE [question |-> question, answer |-> <<AnswerOf(question)>>,
                   citations |-> IF how = "cited"
                                   THEN <<[url |-> SourceOf(question),
                                           title |-> PageTitle(SourceOf(question))]>>
                                   ELSE <<>>]]

\* combined_research: the answers joined and the citations concatenated, in
\* the order of results
combined_research(results) ==
  [content |-> Flatten([i \in 1..Len(results) |->
                          <<"Q:", results[i].question, "A:">> \o results[i].answer]),
   citations |-> Flatten([i \in 1..Len(results) |-> results[i].citations])]

\* ---------------------------------------------------------------------------
\* The retry decorators of the two clients
\* ---------------------------------------------------------------------------
\* create_retry_decorator() with its defaults, and with the arguments given
\* for Perplexity
retry_openai == [max_retries |-> 3, min_wait |-> 1, max_wait |-> 10]
retry_perplexity == [max_retries |-> 5, min_wait |-> 2, max_wait |-> 15]

\* the decorated methods: RetryOpenAI's are plain functions, RetryPerplexity's
\* is a coroutine function; the decorator is also exercised on a plain
\* function with the Perplexity arguments
Decorated ==
  { [decorator |-> retry_openai, async |-> FALSE],
    [decorator |-> retry_perplexity, async |-> TRUE],
    [decorator |-> retry_perplexity, async |-> FALSE] }

\* except (APIError, APIConnectionError, RateLimitError)
RetriedErrors == {"APIError", "APIConnectionError", "RateLimitError"}

\* how a call of the underlying operation ends: a response, one of the
\* retried errors, or another exception
OperationOutcomes == {"ok"} \cup RetriedErrors \cup {"ValueError"}

RECURSIVE Pow2(_)
Pow2(n) == IF n = 0 THEN 1 ELSE 2 * Pow2(n - 1)

\* the backoff as it would be without the cap
wait_time_Uncapped(d, attempt) == d.min_wait * Pow2(attempt - 1)

\* wait_time = min(max_wait, min_wait * (2 ** (attempt - 1)))
wait_time(d, attempt) ==
  LET backoff == d.min_wait * Pow2(attempt - 1)
  IN IF d.max_wait < backoff THEN d.max_wait ELSE backoff

\* the loop as it would be if it gave up after any exception
wrapper_NoRetry(d, attempt, outcome) ==
  IF outcome = "ok" THEN [phase |-> "returned", raised |-> "none", slept |-> <<>>]
  ELSE [phase |-> "raised", raised |-> outcome, slept |-> <<>>]

\* one pass of the wrapper's loop around a plain function whose call ended
\* with outcome: return its result, raise, or sleep and go on with the next
\* attempt
wrapper(d, attempt, outcome) ==
  IF outcome = "ok" THEN [phase |-> "returned", raised |-> "none", slept |-> <<>>]
  ELSE IF outcome \in RetriedErrors /\ attempt # d.max_retries
    THEN [phase |-> "running", raised |-> "none", slept |-> <<wait_time(d, attempt)>>]
  ELSE [phase |-> "raised", raised |-> outcome, slept |-> <<>>]

\* ---------------------------------------------------------------------------
\* State
\* ---------------------------------------------------------------------------
VARIABLES
  files,                  \* the job directory: step name -> <step name>.json
  metadata_json,          \* metadata.json: the number of times it was written
  use_case_md,            \* use_case.md
  job_dir,                \* the job directory has been created
  env,                    \* the credentials present in the environment
  pc,                     \* where main is: idle, a step name, assemble, done, aborted
  run,                    \* invocations of main so far
  questions_to_ask,       \* main's locals, one per stage
  deep_research_results,
  refined_draft_json,
  final_use_case_json,
  example_solution_json,
  visual_suggestions,
  step_results,           \* main's step_results dict
  raised,                 \* the exception main terminated with
  calls,                  \* calls made to the collaborators, per stage
  outcome,                \* how each stage of this run ended
  failure,                \* the exception each stage function raised, and where
  started,                \* the stages of this run in the order they started
  emptyStart,             \* this run found the job directory empty
  prompt_questions,       \* the questions listed in Stage 2's request
  warned,                 \* Stage 5 printed its step-count warning
  refused,                \* the stages whose structured response was a refusal
  saved,                  \* cache harness: content of the last successful save
  op,                     \* cache harness: the last operation and its result
  md_input,               \* assembler harness: the arguments of the last call
  md_output,              \* assembler harness: the markdown it returned
  title_fetch,            \* title-lookup harness: the URLs, their tasks, the citations
  research_batch,         \* batch harness: the questions, their tasks, the combined result
  retry,                  \* retry harness: one call of a decorated client method
  jobs                    \* job harness: the JobManagers created and their directories

locals == <<questions_to_ask, deep_research_results, refined_draft_json,
            final_use_case_json, example_solution_json, visual_suggestions>>
\* the variables of the harnesses of single components
sideVars == <<title_fetch, research_batch, retry, jobs>>
harness == <<saved, op, md_input, md_output, sideVars>>
outputs == <<metadata_json, use_case_md, job_dir>>
ghosts == <<outcome, failure, started, emptyStart, prompt_questions, warned,
            refused>>
vars == <<files, outputs, env, pc, run, locals, step_results, raised, calls, ghosts,
          harness>>

EmptyDir == [s \in StepNames |-> NoFile]

NoOp == [name |-> "none", step |-> "none", arg |-> <<>>, raised |-> "none",
         ret |-> None, via |-> "none"]

NoFailure == [err |-> "none", at |-> "none"]

RequiredVars == {"PERPLEXITY_API_KEY", "OPENAI_API_KEY"}

NoInput ==
  [given |-> FALSE, data |-> RefusalOf(<<>>, [state |-> "absent", items |-> <<>>]),
   example |-> Unset, visual |-> Unset]

NoLookups ==
  [phase |-> "idle", urls |-> <<>>, title_tasks |-> <<>>, completed |-> <<>>,
   raised |-> "none", citations |-> <<>>]

NoBatch ==
  [phase |-> "idle", research_questions |-> <<>>, tasks |-> <<>>, completed |-> <<>>,
   raised |-> "none", combined |-> [content |-> <<>>, citations |-> <<>>]]

\* attempt is the wrapper's counter, outcomes lists how the calls of the
\* underlying operation ended, waits the sleeps between them
NoCall ==
  [phase |-> "idle", decorator |-> retry_openai, async |-> FALSE, attempt |-> 0,
   outcomes |-> <<>>, waits |-> <<>>, raised |-> "none"]

\* no JobManager has been created and no job directory exists
NoJobs == [managers |-> <<>>, dirs |-> <<>>]

InitMain ==
  /\ files = EmptyDir
  /\ metadata_json = 0
  /\ use_case_md = NoFile
  /\ job_dir = FALSE
  /\ env = RequiredVars
  /\ pc = "idle"
  /\ run = 0
  /\ questions_to_ask = Unset
  /\ deep_research_results = Unset
  /\ refined_draft_json = Unset
  /\ final_use_case_json = Unset
  /\ example_solution_json = Unset
  /\ visual_suggestions = Unset
  /\ step_results = [s \in StepNames |-> "unset"]
  /\ raised = "none"
  /\ calls = [s \in StepNames |-> 0]
  /\ outcome = [s \in StepNames |-> "none"]
  /\ failure = [s \in StepNames |-> NoFailure]
  /\ started = <<>>
  /\ emptyStart = TRUE
  /\ prompt_questions = <<>>
  /\ warned = FALSE
  /\ refused = {}

Init ==
  /\ InitMain
  /\ saved = [s \in StepNames |-> None]
  /\ op = NoOp
  /\ md_input = NoInput
  /\ md_output = <<>>
  /\ title_fetch = NoLookups
  /\ research_batch = NoBatch
  /\ retry = NoCall
  /\ jobs = NoJobs

\* ---------------------------------------------------------------------------
\* main
\* ---------------------------------------------------------------------------
\* validate_environment as it would be if it tested one key only
MissingVars_OpenAIOnly(present) == {"OPENAI_API_KEY"} \ present

\* validate_environment
MissingVars(present) == RequiredVars \ present

\* the exception a start without all credentials ends with
StartupErrors(present) ==
  IF "OPENAI_API_KEY" \in present THEN {"EnvironmentError"}
  ELSE {"OpenAIError", "EnvironmentError"}

\* main as it would be without the call of save_metadata
save_metadata_Skipped(written) == written

\* JobManager.save_metadata: metadata.json is opened with "w" and written;
\* the model counts the times it was
save_metadata(written) == written + 1

\* the script up to Stage 1: the clients built when the module is loaded,
\* then in main the environment check, the JobManager and save_metadata.
\* Without OPENAI_API_KEY the client constructor raises at load time when
\* the variable is unset, and validate_environment raises when it is set
\* but empty.  A later invocation resolves to the same job directory when
\* its title and second of creation are the same.
Begin ==
  /\ pc \in {"idle", "done", "aborted"}
  /\ run < MaxRuns
  /\ run' = run + 1
  /\ \E present \in SUBSET RequiredVars :
       /\ env' = present
       /\ IF MissingVars(present) # {}
            THEN /\ pc' = "aborted"
                 /\ raised' \in StartupErrors(present)
                 /\ UNCHANGED <<metadata_json, job_dir>>
            ELSE /\ pc' = Steps[1]
                 /\ raised' = "none"
                 /\ job_dir' = TRUE
                 /\ metadata_json' = save_metadata(metadata_json)
  /\ questions_to_ask' = Unset
  /\ deep_research_results' = Unset
  /\ refined_draft_json' = Unset
  /\ final_use_case_json' = Unset
  /\ example_solution_json' = Unset
  /\ visual_suggestions' = Unset
  /\ step_results' = [s \in StepNames |-> "unset"]
  /\ outcome' = [s \in StepNames |-> "none"]
  /\ failure' = [s \in StepNames |-> NoFailure]
  /\ started' = <<>>
  /\ emptyStart' = (files = EmptyDir)
  /\ prompt_questions' = <<>>
  /\ warned' = FALSE
  /\ refused' = {}
  /\ UNCHANGED <<files, use_case_md, calls, harness>>

\* the try/except as it would be if it only logged the exception
TryStage_LogOnly(step_name, r) ==
  IF r.raised = "none"
    THEN [status |-> "ok", value |-> r.value, step_result |-> "True",
          outcome |-> IF r.hit THEN "cache-hit" ELSE "fresh", raised |-> "none"]
    ELSE [status |-> "ok", value |-> Unset, step_result |-> "False",
          outcome |-> "degraded", raised |-> "none"]

\* one try/except of main around a stage function that ended as r: its
\* value on success, else whatever handle_step_failure decides
TryStage(step_name, r) ==
  IF r.raised = "none"
    THEN [status |-> "ok", value |-> r.value, step_result |-> "True",
          outcome |-> IF r.hit THEN "cache-hit" ELSE "fresh", raised |-> "none"]
    ELSE LET h == handle_step_failure(r.dir, step_name, r.raised)
         IN IF h.raised # "none"
              THEN [status |-> "abort", value |-> Unset, step_result |-> "unset",
                    outcome |-> "fatal", raised |-> h.raised]
            ELSE IF ~Truthy(h.ret)
              THEN [status |-> "abort", value |-> Unset, step_result |-> "unset",
                    outcome |-> "fatal", raised |-> r.raised]
            ELSE [status |-> "ok", value |-> StrV(h.ret.str), step_result |-> "False",
                  outcome |-> IF h.via = "cache" THEN "recovered" ELSE "degraded",
                  raised |-> "none"]

\* main as it would be with Stage 5 left out of the sequence
AfterStage_Skipping(i) ==
  IF i = 4 THEN Steps[6] ELSE IF i < Len(Steps) THEN Steps[i + 1] ELSE "assemble"

AfterStage(i) == IF i < Len(Steps) THEN Steps[i + 1] ELSE "assemble"

\* main as it would be if it cleared the job directory when a stage aborts
Advance_CleanOnAbort(i, r, m) ==
  LET s == Steps[i]
  IN /\ files' = IF m.status = "ok" THEN r.dir ELSE EmptyDir
     /\ calls' = [calls EXCEPT ![s] = @ + r.ncalls]
     /\ step_results' = IF m.status = "ok" THEN [step_results EXCEPT ![s] = m.step_result]
                        ELSE step_results
     /\ raised' = m.raised
     /\ pc' = IF m.status = "ok" THEN AfterStage(i) ELSE "aborted"
     /\ outcome' = [outcome EXCEPT ![s] = m.outcome]
     /\ failure' = [failure EXCEPT ![s] = [err |-> r.raised, at |-> r.at]]
     /\ started' = Append(started, s)
     /\ warned' = (warned \/ r.warned)
     /\ refused' = IF r.refusal THEN refused \cup {s} ELSE refused
     /\ UNCHANGED <<outputs, env, run, emptyStart, harness>>

\* main as it would be if the failure policy saved the fallback it returns
Advance_SaveFallback(i, r, m) ==
  LET s == Steps[i]
  IN /\ files' = IF m.outcome = "degraded"
                   THEN save_partial_result(r.dir, s, m.value.str, "ok").dir
                   ELSE r.dir
     /\ calls' = [calls EXCEPT ![s] = @ + r.ncalls]
     /\ step_results' = IF m.status = "ok" THEN [step_results EXCEPT ![s] = m.step_result]
                        ELSE step_results
     /\ raised' = m.raised
     /\ pc' = IF m.status = "ok" THEN AfterStage(i) ELSE "aborted"
     /\ outcome' = [outcome EXCEPT ![s] = m.outcome]
     /\ failure' = [failure EXCEPT ![s] = [err |-> r.raised, at |-> r.at]]
     /\ started' = Append(started, s)
     /\ warned' = (warned \/ r.warned)
     /\ refused' = IF r.refusal THEN refused \cup {s} ELSE refused
     /\ UNCHANGED <<outputs, env, run, emptyStart, harness>>

\* what every stage's try/except does to the shared state: r is how the
\* stage function ended, m what the try/except made of it
Advance(i, r, m) ==
  LET s == Steps[i]
  IN /\ files' = r.dir
     /\ calls' = [calls EXCEPT ![s] = @ + r.ncalls]
     /\ step_results' = IF m.status = "ok" THEN [step_results EXCEPT ![s] = m.step_result]
                        ELSE step_results
     /\ raised' = m.raised
     /\ pc' = IF m.status = "ok" THEN AfterStage(i) ELSE "aborted"
     /\ outcome' = [outcome EXCEPT ![s] = m.outcome]
     /\ failure' = [failure EXCEPT ![s] = [err |-> r.raised, at |-> r.at]]
     /\ started' = Append(started, s)
     /\ warned' = (warned \/ r.warned)
     /\ refused' = IF r.refusal THEN refused \cup {s} ELSE refused
     /\ UNCHANGED <<outputs, env, run, emptyStart, harness>>

Stage1 ==
  /\ pc = Steps[1]
  /\ \E r \in identify_research_questions(files) :
       LET m == TryStage(Steps[1], r)
       IN /\ Advance(1, r, m)
          /\ questions_to_ask' = m.value
  /\ UNCHANGED <<deep_research_results, refined_draft_json, final_use_case_json,
                 example_solution_json, visual_suggestions, prompt_questions>>

Stage2 ==
  /\ pc = Steps[2]
  /\ \E r \in deep_research(files, questions_to_ask) :
       LET m == TryStage(Steps[2], r)
       IN /\ Advance(2, r, m)
          /\ deep_research_results' = m.value
          /\ prompt_questions' = IF r.ncalls > 0 THEN QuestionItems(questions_to_ask)
                                 ELSE prompt_questions
  /\ UNCHANGED <<questions_to_ask, refined_draft_json, final_use_case_json,
                 example_solution_json, visual_suggestions>>

Stage3 ==
  /\ pc = Steps[3]
  /\ \E r \in refine_use_case_with_reasoning(files, deep_research_results) :
       LET m == TryStage(Steps[3], r)
       IN /\ Advance(3, r, m)
          /\ refined_draft_json' = m.value
  /\ UNCHANGED <<questions_to_ask, deep_research_results, final_use_case_json,
                 example_solution_json, visual_suggestions, prompt_questions>>

Stage4 ==
  /\ pc = Steps[4]
  /\ \E r \in finalize_use_case(files, refined_draft_json) :
       LET m == TryStage(Steps[4], r)
       IN /\ Advance(4, r, m)
          /\ final_use_case_json' = m.value
  /\ UNCHANGED <<questions_to_ask, deep_research_results, refined_draft_json,
                 example_solution_json, visual_suggestions, prompt_questions>>

Stage5 ==
  /\ pc = Steps[5]
  /\ \E r \in generate_example_solution(files, final_use_case_json,
                                        deep_research_results) :
       LET m == TryStage(Steps[5], r)
       IN /\ Advance(5, r, m)
          /\ example_solution_json' = m.value
  /\ UNCHANGED <<questions_to_ask, deep_research_results, refined_draft_json,
                 final_use_case_json, visual_suggestions, prompt_questions>>

Stage6 ==
  /\ pc = Steps[6]
  /\ \E r \in suggest_visual_elements(files, final_use_case_json,
                                      example_solution_json) :
       LET m == TryStage(Steps[6], r)
       IN /\ Advance(6, r, m)
          /\ visual_suggestions' = m.value
  /\ UNCHANGED <<questions_to_ask, deep_research_results, refined_draft_json,
                 final_use_case_json, example_solution_json, prompt_questions>>

\* main as it would be if an empty document stopped the run
Assemble_AbortOnEmpty ==
  /\ pc = "assemble"
  /\ LET markdown_content == convert_json_to_markdown(final_use_case_json,
                                                      example_solution_json,
                                                      visual_suggestions)
     IN IF markdown_content = <<>>
          THEN /\ pc' = "aborted"
               /\ raised' = "ValueError"
               /\ UNCHANGED use_case_md
          ELSE /\ pc' = "done"
               /\ use_case_md' = File(markdown_content)
               /\ UNCHANGED raised
  /\ UNCHANGED <<files, metadata_json, job_dir, env, run, locals, step_results,
                 calls, ghosts, harness>>

\* convert_json_to_markdown and write_markdown_file, which logs a failed
\* write and goes on
Assemble ==
  /\ pc = "assemble"
  /\ \E written \in BOOLEAN :
       use_case_md' =
         IF written
           THEN File(convert_json_to_markdown(final_use_case_json, example_solution_json,
                                              visual_suggestions))
           ELSE use_case_md
  /\ pc' = "done"
  /\ UNCHANGED <<files, metadata_json, job_dir, env, run, locals, step_results, raised,
                 calls, ghosts, harness>>

Next ==
  \/ Begin
  \/ Stage1
  \/ Stage2
  \/ Stage3
  \/ Stage4
  \/ Stage5
  \/ Stage6
  \/ Assemble

Spec == Init /\ [][Next]_vars

\* ---------------------------------------------------------------------------
\* Cache harness: load, save and the failure policy called in any order on
\* one job directory
\* ---------------------------------------------------------------------------
\* the failures a stage hands to the failure policy
Errors == {"APIError", "OSError"}

mainVars == <<outputs, env, pc, run, locals, step_results, raised, calls, ghosts>>

\* the records of different steps are different files and an operation
\* touches only the file of its step: the harness works on the record of one
\* step at a time (main fills directories with several records)
OtherRecords(dir, step_name) == {s \in StepNames \ {step_name} : dir[s].exists}

SaveOp ==
  \E s \in StepNames, c \in Strings, io \in SaveOutcomes :
    LET r == save_partial_result(files, s, c, io)
    IN /\ OtherRecords(files, s) = {}
       /\ files' = r.dir
       /\ saved' = [saved EXCEPT ![s] = IF io = "ok" THEN Some(c)
                                        ELSE IF io = "open_failed" THEN @
                                        ELSE None]
       /\ op' = [name |-> "save", step |-> s, arg |-> <<>>, raised |-> r.raised,
                 ret |-> None, via |-> "none"]
       /\ UNCHANGED <<md_input, md_output, sideVars, mainVars>>

LoadOp ==
  \E s \in StepNames :
    LET r == load_partial_result(files, s)
    IN /\ op' = [name |-> "load", step |-> s, arg |-> <<>>, raised |-> r.raised,
                 ret |-> r.ret, via |-> "none"]
       /\ UNCHANGED <<files, saved, md_input, md_output, sideVars, mainVars>>

FailureOp ==
  \E s \in StepNames, e \in Errors :
    LET r == handle_step_failure(files, s, e)
    IN /\ op' = [name |-> "handle_step_failure", step |-> s, arg |-> <<e>>,
                 raised |-> r.raised, ret |-> r.ret, via |-> r.via]
       /\ UNCHANGED <<files, saved, md_input, md_output, sideVars, mainVars>>

NextCache == SaveOp \/ LoadOp \/ FailureOp

SpecCache == Init /\ [][NextCache]_vars

\* ---------------------------------------------------------------------------
\* Assembler harness: one call of convert_json_to_markdown on any document
\* ---------------------------------------------------------------------------
ConvertOp ==
  \E d \in AssemblerDocs, e \in AssemblerExamples, v \in AssemblerVisuals :
    /\ ~md_input.given
    /\ md_input' = [given |-> TRUE, data |-> d, example |-> e, visual |-> v]
    /\ md_output' = convert_json_to_markdown(StrV(JsonDumpsUseCase(d)), e, v)
    /\ UNCHANGED <<files, saved, op, sideVars, mainVars>>

NextAssembler == ConvertOp

SpecAssembler == Init /\ [][NextAssembler]_vars

\* the variables of the pipeline and of the cache and assembler harnesses
coreVars == <<files, saved, op, md_input, md_output, mainVars>>

\* ---------------------------------------------------------------------------
\* Title-lookup harness: the citations part of deep_research
\* ---------------------------------------------------------------------------
\* title_tasks = [fetch_url_title(url, session) for url in response.citations]
StartLookups ==
  \E urls \in UrlLists :
    /\ title_fetch.phase = "idle"
    /\ title_fetch' = [NoLookups EXCEPT !.phase = "fetching", !.urls = urls,
                                        !.title_tasks = [i \in 1..Len(urls) |-> PendingTask]]
    /\ UNCHANGED <<research_batch, retry, jobs, coreVars>>

\* one of the pending lookups completes
LookupDone ==
  \E i \in 1..Len(title_fetch.urls), how \in LookupOutcomes :
    LET r == fetch_url_title(title_fetch.urls[i], how)
    IN /\ title_fetch.phase = "fetching"
       /\ ~title_fetch.title_tasks[i].done
       /\ title_fetch' =
            [title_fetch EXCEPT
               !.title_tasks[i] = [done |-> TRUE, how |-> how, raised |-> r.raised,
                                   ret |-> r.ret],
               !.completed = Append(@, i)]
       /\ UNCHANGED <<research_batch, retry, jobs, coreVars>>

\* gather returns once every task is done, or raises with the first task
\* that raised; the citations are zip(response.citations, titles)
Gathered ==
  LET tasks == title_fetch.title_tasks
      g == gather(tasks, title_fetch.completed)
      reply == [ok |-> TRUE, text |-> <<"r">>, urls |-> title_fetch.urls]
  IN /\ title_fetch.phase = "fetching"
     /\ \/ \A i \in 1..Len(tasks) : tasks[i].done
        \/ g.raised # "none"
     /\ title_fetch' =
          IF g.raised # "none"
            THEN [title_fetch EXCEPT !.phase = "raised", !.raised = g.raised]
            ELSE [title_fetch EXCEPT
                    !.phase = "done",
                    !.citations = ResearchAttempt(reply, g.ret).value.citations]
     /\ UNCHANGED <<research_batch, retry, jobs, coreVars>>

NextTitles == StartLookups \/ LookupDone \/ Gathered

SpecTitles == Init /\ [][NextTitles]_vars

\* ---------------------------------------------------------------------------
\* Batch harness: the parallel deep_research between its cache check and its
\* save
\* ---------------------------------------------------------------------------
\* tasks = [research_question(q, context_prefix) for q in research_questions]
StartBatch ==
  \E qs \in QuestionLists :
    /\ research_batch.phase = "idle"
    /\ research_batch' = [NoBatch EXCEPT !.phase = "researching",
                                         !.research_questions = qs,
                                         !.tasks = [i \in 1..Len(qs) |-> PendingTask]]
    /\ UNCHANGED <<title_fetch, retry, jobs, coreVars>>

\* the call for one of the questions returns
QuestionDone ==
  \E i \in 1..Len(research_batch.research_questions), how \in QuestionOutcomes :
    LET r == research_question(research_batch.research_questions[i], how)
    IN /\ research_batch.phase = "researching"
       /\ ~research_batch.tasks[i].done
       /\ research_batch' =
            [research_batch EXCEPT
               !.tasks[i] = [done |-> TRUE, how |-> how, raised |-> r.raised,
                             ret |-> r.ret],
               !.completed = Append(@, i)]
       /\ UNCHANGED <<title_fetch, retry, jobs, coreVars>>

\* results = await asyncio.gather(*tasks), then the results are combined
BatchGathered ==
  LET tasks == research_batch.tasks
      g == gather(tasks, research_batch.completed)
  IN /\ research_batch.phase = "researching"
     /\ \/ \A i \in 1..Len(tasks) : tasks[i].done
        \/ g.raised # "none"
     /\ research_batch' =
          IF g.raised # "none"
            THEN [research_batch EXCEPT !.phase = "raised", !.raised = g.raised]
            ELSE [research_batch EXCEPT !.phase = "done",
                                        !.combined = combined_research(g.ret)]
     /\ UNCHANGED <<title_fetch, retry, jobs, coreVars>>

NextBatch == StartBatch \/ QuestionDone \/ BatchGathered

SpecBatch == Init /\ [][NextBatch]_vars

\* ---------------------------------------------------------------------------
\* Retry harness: one call of a method of RetryOpenAI or RetryPerplexity
\* ---------------------------------------------------------------------------
\* the stage calls the decorated method: attempt = 1
CallDecorated ==
  \E m \in Decorated :
    /\ retry.phase = "idle"
    /\ retry' = [NoCall EXCEPT !.phase = "running", !.decorator = m.decorator,
                               !.async = m.async, !.attempt = 1]
    /\ UNCHANGED <<title_fetch, research_batch, jobs, coreVars>>

\* one pass of the loop around a plain function: func is called, and the
\* wrapper returns, raises, or sleeps and increments attempt
TryCall ==
  \E how \in OperationOutcomes :
    LET w == wrapper(retry.decorator, retry.attempt, how)
    IN /\ retry.phase = "running"
       /\ ~retry.async
       /\ retry' = [retry EXCEPT !.phase = w.phase,
                                 !.outcomes = Append(@, how),
                                 !.waits = @ \o w.slept,
                                 !.raised = w.raised,
                                 !.attempt = IF w.phase = "running" THEN @ + 1 ELSE @]
    /\ UNCHANGED <<title_fetch, research_batch, jobs, coreVars>>

\* the pass of the loop around a coroutine function: func(*args, **kwargs)
\* only creates the coroutine, which the wrapper returns at once
ReturnCoroutine ==
  /\ retry.phase = "running"
  /\ retry.async
  /\ retry' = [retry EXCEPT !.phase = "awaiting"]
  /\ UNCHANGED <<title_fetch, research_batch, jobs, coreVars>>

\* deep_research awaits the coroutine: the operation runs, outside the
\* wrapper, and its exception is raised in the stage
AwaitCoroutine ==
  \E how \in OperationOutcomes :
    /\ retry.phase = "awaiting"
    /\ retry' = [retry EXCEPT !.phase = IF how = "ok" THEN "returned" ELSE "raised",
                              !.outcomes = Append(@, how),
                              !.raised = IF how = "ok" THEN "none" ELSE how]
    /\ UNCHANGED <<title_fetch, research_batch, jobs, coreVars>>

NextRetry == CallDecorated \/ TryCall \/ ReturnCoroutine \/ AwaitCoroutine

SpecRetry == Init /\ [][NextRetry]_vars

\* ---------------------------------------------------------------------------
\* Job harness: JobManagers created for any titles at any times, each
\* followed by save_metadata, and the first stage of main run for them in
\* any order
\* ---------------------------------------------------------------------------
MaxJobs == 2

MaxTick == 2

\* USE_CASE_CONFIG["title"]
Titles == {<<"A", SP, "b">>, <<SP, "a", SP, NL, "B">>, <<"c">>}

\* str.lower() on the letters of the titles
LowerChar(c) == IF c = "A" THEN "a" ELSE IF c = "B" THEN "b" ELSE c

Lower(s) == [i \in 1..Len(s) |-> LowerChar(s[i])]

\* str.split(): the words between runs of whitespace; leading and trailing
\* whitespace gives no word
RECURSIVE Split(_)
Split(s) ==
  LET t == LStrip(s)
  IN IF t = <<>> THEN <<>>
     ELSE LET k == IF \E i \in 1..Len(t) : t[i] \in Whitespace
                     THEN CHOOSE i \in 1..Len(t) :
                            t[i] \in Whitespace /\ \A j \in 1..(i - 1) : t[j] \notin Whitespace
                     ELSE Len(t) + 1
          IN <<SubSeq(t, 1, k - 1)>> \o Split(SubSeq(t, k, Len(t)))

\* "_".join(words)
RECURSIVE JoinUnderscore(_)
JoinUnderscore(l) ==
  IF l = <<>> THEN <<>>
  ELSE IF Len(l) = 1 THEN l[1]
  ELSE l[1] \o <<"_">> \o JoinUnderscore(Tail(l))

safe_title(title) == JoinUnderscore(Split(Lower(title)))

\* the clock counts half seconds
TicksPerSecond == 2

\* the timestamp as it would be with the fraction of the second in it
timestamp_Subsecond(now) == ToString(now)

\* datetime.now().strftime("%Y%m%d_%H%M%S"): the clock cut to the second
timestamp(now) == ToString(now \div TicksPerSecond)

job_id(title, now) == safe_title(title) \o <<"_", timestamp(now)>>

NoMetadata == [job_id |-> <<>>, created_at |-> 0, use_case_title |-> <<>>]

\* os.makedirs(self.job_dir, exist_ok=True): a directory that exists is left
\* as it is, with what it holds
makedirs(dirs, id) ==
  IF id \in DOMAIN dirs THEN dirs
  ELSE [x \in DOMAIN dirs \cup {id} |->
          IF x = id THEN [metadata |-> NoMetadata, records |-> EmptyDir] ELSE dirs[x]]

\* JobManager(title) and save_metadata, which opens metadata.json with "w"
NewJob ==
  \E title \in Titles, now \in 0..MaxTick :
    /\ Len(jobs.managers) < MaxJobs
    /\ \A k \in 1..Len(jobs.managers) : jobs.managers[k].created_at <= now
    /\ LET id == job_id(title, now)
           metadata == [job_id |-> id, created_at |-> now, use_case_title |-> title]
       IN jobs' = [managers |-> Append(jobs.managers,
                                       [title |-> title, created_at |-> now,
                                        job_id |-> id, outcome |-> "none"]),
                   dirs |-> [makedirs(jobs.dirs, id) EXCEPT ![id].metadata = metadata]]
    /\ UNCHANGED <<title_fetch, research_batch, retry, coreVars>>

\* Stage 1 of main for one of the jobs, on the directory of its job id
JobStage1 ==
  \E j \in 1..Len(jobs.managers) :
    /\ jobs.managers[j].outcome = "none"
    /\ \E r \in identify_research_questions(jobs.dirs[jobs.managers[j].job_id].records) :
         LET m == TryStage("research_questions", r)
         IN jobs' = [managers |-> [jobs.managers EXCEPT ![j].outcome = m.outcome],
                     dirs |-> [jobs.dirs EXCEPT ![jobs.managers[j].job_id].records = r.dir]]
    /\ UNCHANGED <<title_fetch, research_batch, retry, coreVars>>

NextJobs == NewJob \/ JobStage1

SpecJobs == Init /\ [][NextJobs]_vars

\* ---------------------------------------------------------------------------
\* Properties
\* ---------------------------------------------------------------------------
\* main's local that holds the result of stage i
LocalOf(i) ==
  CASE i = 1 -> questions_to_ask
    [] i = 2 -> deep_research_results
    [] i = 3 -> refined_draft_json
    [] i = 4 -> final_use_case_json
    [] i = 5 -> example_solution_json
    [] i = 6 -> visual_suggestions

\* this step is the call of stage i (every stage moves pc on)
StageStep(i) == pc = Steps[i] /\ pc' # pc

\* the content of the step record, as load_partial_result reads it
ContentOf(dir, step_name) == load_partial_result(dir, step_name).ret

\* the ways a stage of main can end without aborting the run
Passed == {"fresh", "cache-hit", "recovered", "degraded"}

C2_RoundTrip ==
  (op.name = "load" /\ ~saved[op.step].none) =>
    (op.raised = "none" /\ op.ret = saved[op.step])

\* a content of one backslash was saved and loaded
C2_Witness ==
  /\ op.name = "load"
  /\ saved[op.step] = Some(<<Backslash>>)
  /\ op.ret = Some(<<Backslash>>)

FreshKind(step_name) ==
  IF step_name = "research_questions" THEN "list"
  ELSE IF step_name = "deep_research" THEN "dict"
  ELSE "str"

\* C4: when the call of research_questions, deep_research or
\* visual_suggestions fails and there is no record, the fallback that stands
\* in for the result is not null and is a value of the kind the stage
\* returns on a fresh success
C4_FallbackFitsSchema ==
  \A i \in {1, 2, 6} :
    (outcome[Steps[i]] = "degraded" /\ failure[Steps[i]].at = "call") =>
      (LocalOf(i) # Unset /\ LocalOf(i).kind = FreshKind(Steps[i]))

\* the calls of every stage but step_name went well (a stage that raised
\* before its call made none)
OtherCallsSucceeded(step_name) ==
  \A t \in StepNames \ {step_name} : failure[t].at \in {"none", "prepare"}

\* C5: a run from an empty job directory in which the call of
\* research_questions, deep_research or visual_suggestions fails and every
\* other call succeeds runs all six stages and ends without raising
C5_DegradedRunCompletes ==
  \A s \in FallbackSteps :
    ( /\ emptyStart
      /\ pc \in {"done", "aborted"}
      /\ failure[s].at = "call"
      /\ OtherCallsSucceeded(s) ) =>
      (pc = "done" /\ started = Steps /\ raised = "none")

\* C6: handle_step_failure called for any step whose record holds content
\* returns that content; it neither returns the fallback nor raises
C6_CacheFirst ==
  (op.name = "handle_step_failure" /\ Truthy(saved[op.step])) =>
    (op.raised = "none" /\ op.via = "cache" /\ op.ret = saved[op.step])

\* the policy returned the saved content of a step that has no fallback and
\* of one that has
C6_Witness ==
  /\ op.name = "handle_step_failure"
  /\ op.step \in NoFallbackSteps
  /\ op.via = "cache"
  /\ op.ret = Some(<<Quote>>)

\* C7: the stages of a run start in the order 1..6, a stage starts only when
\* the stage before it has ended without aborting the run, and the document
\* is assembled only after Stage 6 has ended that way
C7_StrictSequence ==
  /\ Len(started) <= Len(Steps)
  /\ \A k \in 1..Len(started) : started[k] = Steps[k]
  /\ \A k \in 1..Len(started) : k < Len(started) => outcome[Steps[k]] \in Passed
  /\ \A i \in 1..Len(Steps) : pc = Steps[i] => Len(started) = i - 1
  /\ pc \in {"assemble", "done"} =>
       (started = Steps /\ \A s \in StepNames : outcome[s] \in Passed)

\* a run with a degraded Stage 2 reached Stage 5 and stopped there
C7_Witness ==
  /\ started = SubSeq(Steps, 1, 5)
  /\ outcome["deep_research"] = "degraded"
  /\ outcome["final_use_case"] = "fresh"
  /\ pc = "aborted"

\* the content a stage saves for the value it returns
Serialized(v) ==
  IF v.kind = "list" THEN JoinLines(v.list)
  ELSE IF v.kind = "dict" THEN JsonDumpsResearch(v.content, v.citations)
  ELSE v.str

\* C8: when a stage has returned a result it computed, its step record
\* exists and holds that result, already when the next stage starts
C8_PersistedBeforeReturn ==
  \A i \in 1..Len(Steps) :
    outcome[Steps[i]] = "fresh" =>
      /\ files[Steps[i]].exists
      /\ ContentOf(files, Steps[i]) = Some(Serialized(LocalOf(i)))

\* Stage 3 returned the refusal placeholder and Stage 4 is about to start
C8_Witness ==
  /\ pc = "final_use_case"
  /\ outcome["refined_draft"] = "fresh"
  /\ refined_draft_json =
       StrV(JsonDumpsUseCase(RefusalOf(<<Official("mode"), Official("tool")>>,
                                       [state |-> "list", items |-> <<>>])))

\* C9: when the save of a stage fails, the run aborts with that error; no
\* fallback or other value stands in for the result
C9_SaveErrorIsFatal ==
  \A i \in 1..Len(Steps) :
    failure[Steps[i]].at = "save" =>
      (pc = "aborted" /\ raised = failure[Steps[i]].err /\ LocalOf(i) = Unset)

\* C10: a stage invoked while no record of its step exists does not fail in
\* the load and is not answered from the cache: it goes on to its
\* computation, and unless it gets as far as its save the job directory is
\* as it was
C10_MissingRecordIsAMiss ==
  [][\A i \in 1..Len(Steps) :
       (StageStep(i) /\ ~files[Steps[i]].exists) =>
         /\ failure'[Steps[i]].at # "load"
         /\ outcome'[Steps[i]] \notin {"cache-hit", "recovered"}
         /\ (calls'[Steps[i]] = calls[Steps[i]]) => (failure'[Steps[i]].at = "prepare")
         /\ (failure'[Steps[i]].at \in {"prepare", "call", "compute"}) => (files' = files)]_vars

\* in a run from an empty directory Stage 6 found no record and computed
C10_Witness ==
  /\ emptyStart
  /\ outcome["visual_suggestions"] = "fresh"
  /\ calls["visual_suggestions"] = 1

\* C11: the save of a stage overwrites: the job directory holds one record
\* per step name, after the save the load returns the content just saved
\* whatever the record held before, a save of the content the record already
\* holds leaves the directory as it was, and the records of the other step
\* names are not changed
C11_SaveOverwrites ==
  [][\A i \in 1..Len(Steps) :
       StageStep(i) =>
         /\ DOMAIN files' = StepNames
         /\ \A t \in StepNames \ {Steps[i]} : files'[t] = files[t]
         /\ outcome'[Steps[i]] = "fresh" =>
              /\ ContentOf(files', Steps[i]) = Some(Serialized(LocalOf(i)'))
              /\ (ContentOf(files, Steps[i]) = Some(Serialized(LocalOf(i)'))) =>
                   (files' = files)]_vars

\* a second invocation found the empty record of Stage 6 next to the records
\* of the other stages and wrote a new content over it
C11_Witness ==
  /\ run = 2
  /\ outcome["final_use_case"] = "cache-hit"
  /\ outcome["visual_suggestions"] = "fresh"
  /\ calls["visual_suggestions"] = 2
  /\ ContentOf(files, "visual_suggestions") = Some(<<"v">>)

Unrecoverable(dir, step_name) ==
  /\ step_name \in NoFallbackSteps
  /\ load_partial_result(dir, step_name).raised = "none"
  /\ ~Truthy(ContentOf(dir, step_name))

\* C13: when a stage fails and the failure policy has neither a record nor
\* a fallback for it, main ends by raising that failure: the stage is the
\* last one started, use_case.md is not written, and until main is invoked
\* again no call is made and no file changes
C13_UnrecoveredFailureTerminates ==
  [][/\ \A i \in 1..Len(Steps) :
          (StageStep(i) /\ failure'[Steps[i]].err # "none"
             /\ Unrecoverable(files', Steps[i])) =>
            /\ pc' = "aborted"
            /\ raised' = failure'[Steps[i]].err
            /\ started' = SubSeq(Steps, 1, i)
            /\ use_case_md' = use_case_md
     /\ pc = "aborted" =>
          (run' = run + 1 /\ calls' = calls /\ files' = files
             /\ use_case_md' = use_case_md)]_vars

\* Stage 3's scoring answer was no JSON; main ended with that error, before
\* Stage 4 and without a document
C13_Witness ==
  /\ pc = "aborted"
  /\ failure["refined_draft"] = [err |-> "JSONDecodeError", at |-> "compute"]
  /\ raised = "JSONDecodeError"
  /\ started = SubSeq(Steps, 1, 3)
  /\ calls["final_use_case"] = 0
  /\ ~use_case_md.exists

\* C14: an invocation with PERPLEXITY_API_KEY or OPENAI_API_KEY absent
\* fails before any stage: it creates no job directory, writes no metadata
\* and no step record, makes no call, and no stage runs until main is
\* invoked again
C14_CredentialCheckFirst ==
  [][/\ (pc \in {"idle", "done", "aborted"} /\ run' = run + 1
           /\ ~(RequiredVars \subseteq env')) =>
          /\ pc' = "aborted"
          /\ raised' # "none"
          /\ job_dir' = job_dir
          /\ metadata_json' = metadata_json
          /\ files' = files
          /\ calls' = calls
          /\ started' = <<>>
     /\ ~(RequiredVars \subseteq env) => (pc = "aborted" /\ started = <<>>)]_vars

\* the first invocation, without PERPLEXITY_API_KEY, ended in the
\* environment check
C14_Witness ==
  /\ run = 1
  /\ env = {"OPENAI_API_KEY"}
  /\ pc = "aborted"
  /\ raised = "EnvironmentError"
  /\ ~job_dir
  /\ metadata_json = 0
  /\ files = EmptyDir

\* C15: when Stage 3's structured response is flagged as a refusal (and the
\* record is written), Stage 3 does not raise: it returns a use case with
\* title "Refusal", time "0 minutes" and no steps, and main goes on to
\* Stage 4 with it
C15_Stage3Refusal ==
  ("refined_draft" \in refused /\ failure["refined_draft"].at # "save") =>
    LET placeholder == JsonLoadsUseCase(refined_draft_json.str)
    IN /\ failure["refined_draft"].err = "none"
       /\ outcome["refined_draft"] = "fresh"
       /\ placeholder.ok
       /\ placeholder.data.title = "Refusal"
       /\ placeholder.data.time_to_complete = "0 minutes"
       /\ placeholder.data.steps = <<>>
       /\ pc # "aborted" \/ Len(started) > 3
       /\ Len(started) = 3 => pc = "final_use_case"

\* Stage 4 has run on the placeholder of Stage 3
C15_Witness ==
  /\ "refined_draft" \in refused
  /\ JsonLoadsUseCase(refined_draft_json.str).data.title = "Refusal"
  /\ outcome["final_use_case"] = "fresh"
  /\ pc = "example_solution"

\* the placeholders Stage 3 can return on a refusal
Stage3Placeholders ==
  {RefusalOf(s.official_resources, [state |-> "list", items |-> <<>>]) :
     s \in ScoringReplies}

\* C16: when Stage 4's structured response is flagged as a refusal (and the
\* record is written), Stage 4 does not raise and returns a placeholder with
\* the fields and values of Stage 3's: title, time, empty steps, resources,
\* the configuration as metadata, and citations
C16_Stage4RefusalLikeStage3 ==
  ("final_use_case" \in refused /\ failure["final_use_case"].at # "save") =>
    LET placeholder == JsonLoadsUseCase(final_use_case_json.str)
    IN /\ outcome["final_use_case"] = "fresh"
       /\ placeholder.ok
       /\ placeholder.data \in Stage3Placeholders

\* a citation that carries a number of at least 0.7 as its score
ScoredRelevant(c) == c.relevance_score.has = "number" /\ c.relevance_score.tenths >= 7

Rendered(md, wanted) ==
  LET Wanted(x) == x \in wanted
  IN SelectSeq(md, Wanted)

UrlsOf(items) == {items[i].url : i \in 1..Len(items)}

\* the relevance the citation with this url counts for: its score, a null or
\* missing score counting as 0
CountedScore(items, url) ==
  LET c == CHOOSE c \in {items[i] : i \in 1..Len(items)} : c.url = url
  IN IF c.relevance_score.has = "number" THEN c.relevance_score.tenths ELSE 0

\* C18: whenever the assembler is given a use case with citations, the
\* document lists every one of them once, in descending relevance score,
\* a null score counting as 0 (scores 0.3, 0.9, null, 0.7 are listed
\* 0.9, 0.7, 0.3, null).
C18_CitationsDescending ==
  (md_input.given /\ md_input.data.citations.items # <<>>) =>
    LET citations == md_input.data.citations.items
        shown == Rendered(md_output, UrlsOf(citations))
    IN /\ Len(shown) = Len(citations)
       /\ {shown[i] : i \in 1..Len(shown)} = UrlsOf(citations)
       /\ \A i, j \in 1..Len(shown) :
            i < j => CountedScore(citations, shown[i]) >= CountedScore(citations, shown[j])

\* the headers of the three resource groups in the order of the claim
GroupHeaders ==
  <<"### Tool Documentation", "### Language Documentation",
    "### Mode-specific Documentation">>

GroupRank(ty) == IF ty = "tool" THEN 1 ELSE IF ty = "language" THEN 2 ELSE 3

\* the place of the resource with this url in the input, and its group
InputIndex(resources, url) == CHOOSE i \in 1..Len(resources) : resources[i].url = url
RankOf(resources, url) == GroupRank(resources[InputIndex(resources, url)].type)

\* the group header a piece of the markdown stands under: the last one
\* before position p (0: none)
HeaderAbove(md, p) ==
  LET above == {i \in 1..(p - 1) : \E k \in 1..3 : md[i] = GroupHeaders[k]}
  IN IF above = {} THEN 0
     ELSE LET last == CHOOSE i \in above : \A k \in above : k <= i
          IN CHOOSE k \in 1..3 : md[last] = GroupHeaders[k]

\* no citation of the input has a null relevance score (C18: with one, the
\* assembler returns the empty string)
NoNullScore(data) ==
  \A i \in 1..Len(data.citations.items) :
    data.citations.items[i].relevance_score.has # "null"

\* C19: whenever the assembler is given resources tagged tool, language or
\* mode, in any order, the document shows each resource exactly once, under
\* the header of its own group, the groups in the order Tool, Language,
\* Mode-specific, the resources of a group in input order, and only the
\* headers of the groups that have a resource.
C19_ResourcesGrouped ==
  (md_input.given /\ md_input.data.resources # <<>> /\ NoNullScore(md_input.data)) =>
    LET resources == md_input.data.resources
        shown == Rendered(md_output, UrlsOf(resources))
        headers == Rendered(md_output, {GroupHeaders[k] : k \in 1..3})
        present == {GroupRank(resources[i].type) : i \in 1..Len(resources)}
    IN /\ Len(shown) = Len(resources)
       /\ {shown[i] : i \in 1..Len(shown)} = UrlsOf(resources)
       /\ \A i, j \in 1..Len(shown) :
            i < j =>
              \/ RankOf(resources, shown[i]) < RankOf(resources, shown[j])
              \/ /\ RankOf(resources, shown[i]) = RankOf(resources, shown[j])
                 /\ InputIndex(resources, shown[i]) < InputIndex(resources, shown[j])
       /\ \A p \in 1..Len(md_output) :
            md_output[p] \in UrlsOf(resources) =>
              HeaderAbove(md_output, p) = RankOf(resources, md_output[p])
       /\ Len(headers) = Cardinality(present)
       /\ \A i \in 1..Len(headers) : \E k \in present : headers[i] = GroupHeaders[k]
       /\ \A i, j \in 1..Len(headers) :
            i < j => \E k, l \in 1..3 :
                       k < l /\ headers[i] = GroupHeaders[k] /\ headers[j] = GroupHeaders[l]

\* the resources mode m1, tool t1, language l1, tool t2 were rendered as
\* Tool (t1, t2), Language (l1), Mode-specific (m1)
C19_Witness ==
  /\ md_input.given
  /\ md_input.data.resources =
       <<Res("mode", "m1"), Res("tool", "t1"), Res("language", "l1"), Res("tool", "t2")>>
  /\ Rendered(md_output, {GroupHeaders[k] : k \in 1..3} \cup {"t1", "t2", "l1", "m1"}) =
       <<"### Tool Documentation", "t1", "t2", "### Language Documentation", "l1",
         "### Mode-specific Documentation", "m1">>

\* the pieces that open the sections of the document, in the order of the
\* claim
SectionOrder ==
  <<"#", "**Time to Complete:**", "## Description", "## Steps", "## Resources",
    "## Additional References", "## Example Solution:", "## Visual Elements",
    "## Metadata">>

SectionRank(x) == CHOOSE k \in 1..Len(SectionOrder) : SectionOrder[k] = x

\* the position of the i-th step header of the markdown; Len(md) + 1 when
\* there are fewer
StepStart(md, i) ==
  LET at == {p \in 1..Len(md) :
               /\ md[p] = "### Step"
               /\ Cardinality({q \in 1..p : md[q] = "### Step"}) = i}
  IN IF at = {} THEN Len(md) + 1 ELSE CHOOSE p \in at : TRUE

\* the section a piece of the markdown stands in: the last section opener
\* before position p
SectionAbove(md, p) ==
  LET above == {i \in 1..(p - 1) : \E k \in 1..Len(SectionOrder) : md[i] = SectionOrder[k]}
  IN IF above = {} THEN "" ELSE md[CHOOSE i \in above : \A k \in above : k <= i]

\* C20: in every document the assembler returns, the sections present come
\* in the order title, time, description, steps, resources, additional
\* references, example solution, visual elements, metadata; and the steps
\* section shows the n steps of the input in input order numbered 1..n, each
\* followed by its sub-steps in input order numbered from 1.
C20_FixedSectionOrder ==
  md_input.given =>
    LET sections == Rendered(md_output, {SectionOrder[k] : k \in 1..Len(SectionOrder)})
        steps == md_input.data.steps
    IN /\ \A i, j \in 1..Len(sections) :
            i < j => SectionRank(sections[i]) < SectionRank(sections[j])
       /\ NoNullScore(md_input.data) =>
            /\ Cardinality({p \in 1..Len(md_output) : md_output[p] = "### Step"})
                 = Len(steps)
            /\ \A i \in 1..Len(steps) :
                 LET p == StepStart(md_output, i)
                     sub_steps == steps[i].sub_steps
                     shown == Rendered(SubSeq(md_output, p, StepStart(md_output, i + 1) - 1),
                                       {sub_steps[j] : j \in 1..Len(sub_steps)})
                 IN /\ SectionAbove(md_output, p) = "## Steps"
                    /\ md_output[p + 1] = ToString(i)
                    /\ md_output[p + 2] = steps[i].step_title
                    /\ shown = sub_steps
                    /\ \A q \in p..(StepStart(md_output, i + 1) - 1) :
                         \A j \in 1..Len(sub_steps) :
                           md_output[q] = sub_steps[j] => md_output[q - 1] = ToString(j)

\* a use case with two steps, resources, citations and metadata, assembled
\* with an example solution and visual suggestions: all the sections are
\* there, step 1 "s1" has the sub-steps 1 "a" and 2 "b", step 2 is "s2"
C20_Witness ==
  /\ md_input.given
  /\ md_input.data.steps = GuideSteps
  /\ Rendered(md_output, {SectionOrder[k] : k \in 1..Len(SectionOrder)}) = SectionOrder
  /\ Rendered(md_output, {"### Step", "s1", "s2", "a", "b"}) =
       <<"### Step", "s1", "a", "b", "### Step", "s2">>
  /\ md_output[StepStart(md_output, 2) + 1] = "2"

\* an optional input that is absent: None or the empty string
Absent(v) == v.kind = "unset" \/ v.str = <<>>

\* the markdown without the section this piece opens (up to the next
\* section opener or the end)
WithoutSection(md, header) ==
  LET at == {p \in 1..Len(md) : md[p] = header}
  IN IF at = {} THEN md
     ELSE LET p == CHOOSE q \in at : TRUE
              later == {q \in (p + 1)..Len(md) :
                          \E k \in 1..Len(SectionOrder) : md[q] = SectionOrder[k]}
              next == IF later = {} THEN Len(md) + 1
                      ELSE CHOOSE q \in later : \A r \in later : q <= r
          IN SubSeq(md, 1, p - 1) \o SubSeq(md, next, Len(md))

\* the document out, returned for the input inp, is the document built with
\* both optional inputs present less the sections of the absent ones
OmitsAbsentSections(inp, out) ==
  /\ NoNullScore(inp.data) => out # <<>>
  /\ Absent(inp.example) => \A p \in 1..Len(out) : out[p] # "## Example Solution:"
  /\ Absent(inp.visual) => \A p \in 1..Len(out) : out[p] # "## Visual Elements"
  /\ \A e \in AssemblerExamples, v \in AssemblerVisuals :
       (~Absent(e) /\ ~Absent(v)) =>
         LET full == convert_json_to_markdown(
                       StrV(JsonDumpsUseCase(inp.data)),
                       IF Absent(inp.example) THEN e ELSE inp.example,
                       IF Absent(inp.visual) THEN v ELSE inp.visual)
             lessExample == IF Absent(inp.example)
                              THEN WithoutSection(full, "## Example Solution:")
                              ELSE full
         IN out = IF Absent(inp.visual)
                    THEN WithoutSection(lessExample, "## Visual Elements")
                    ELSE lessExample

\* C21: a call of the assembler changes no file of the job directory and no
\* output file, and returns the document built with both optional inputs
\* present less exactly the sections of the inputs that are absent (None or
\* empty); an absent input never makes the result empty.
C21_AbsentInputsOmitSections ==
  [][md_input' # md_input =>
       /\ UNCHANGED <<files, metadata_json, use_case_md, job_dir>>
       /\ OmitsAbsentSections(md_input', md_output')]_vars

\* the assembler was called with no example solution and with the empty
\* string as visual suggestions, and returned a document with resources and
\* metadata and neither optional section
C21_Witness ==
  /\ md_input.given
  /\ md_input.example = Unset
  /\ md_input.visual = StrV(<<>>)
  /\ Rendered(md_output, {SectionOrder[k] : k \in 1..Len(SectionOrder)}) =
       <<"#", "**Time to Complete:**", "## Description", "## Steps", "## Resources",
         "## Additional References", "## Metadata">>

\* ---------------------------------------------------------------------------
\* Stage 2's title lookups
\* ---------------------------------------------------------------------------
\* C22: the lookups of the returned URLs complete in any order; once they
\* are gathered the stage has not failed, whatever lookup failed or timed
\* out, and the citation list has one entry per returned URL, in the order
\* of the URLs, entry i holding URL i and the title its own lookup gave:
\* the page's title, or None when that lookup failed.
C22_TitleFetchIsolation ==
  title_fetch.phase \in {"done", "raised"} =>
    LET urls == title_fetch.urls
        citations == title_fetch.citations
    IN /\ title_fetch.phase = "done"
       /\ title_fetch.raised = "none"
       /\ Len(citations) = Len(urls)
       /\ \A i \in 1..Len(urls) :
            /\ citations[i].url = urls[i]
            /\ citations[i].title =
                 IF title_fetch.title_tasks[i].how = "title" THEN PageTitle(urls[i])
                 ELSE "None"

\* the lookup of u2 completed before the lookup of u1, which timed out: the
\* citations are u1 without a title, then u2 with its title
C22_Witness ==
  /\ title_fetch.phase = "done"
  /\ title_fetch.urls = <<"u1", "u2">>
  /\ title_fetch.completed = <<2, 1>>
  /\ title_fetch.title_tasks[1].how = "timeout"
  /\ title_fetch.citations = <<[url |-> "u1", title |-> "None"],
                               [url |-> "u2", title |-> "t2"]>>

\* ---------------------------------------------------------------------------
\* The parallel research variant
\* ---------------------------------------------------------------------------
\* what the combined result holds for a question whose call went this way
ExpectedAnswer(q, how) ==
  IF how = "api_error" THEN <<"Error during research:", "APIError">>
  ELSE IF how = "error" THEN <<"Error during research:", "Exception">>
  ELSE <<AnswerOf(q)>>

\* C23: the batch is combined only once the call of every question has
\* returned and never fails; the combined result lists the questions in
\* question order, each with its own answer, whatever the order the calls
\* completed in, a failed call giving the error string as the answer of its
\* question alone and no citations, and the citations are those of the
\* answered questions in question order.
C23_FanOutFanIn ==
  research_batch.phase \in {"done", "raised"} =>
    LET qs == research_batch.research_questions
        tasks == research_batch.tasks
        cited == SelectSeq(qs, LAMBDA q :
                   \E i \in 1..Len(qs) : qs[i] = q /\ tasks[i].how = "cited")
    IN /\ research_batch.phase = "done"
       /\ \A i \in 1..Len(qs) : tasks[i].done
       /\ research_batch.combined.content =
            Flatten([i \in 1..Len(qs) |->
                       <<"Q:", qs[i], "A:">> \o ExpectedAnswer(qs[i], tasks[i].how)])
       /\ Len(research_batch.combined.citations) = Len(cited)
       /\ \A k \in 1..Len(cited) :
            research_batch.combined.citations[k].url = SourceOf(cited[k])

\* the call for q2 returned first with a cited answer, the call for q1
\* failed afterwards: q1 has the error string, q2 its answer and its source
C23_Witness ==
  /\ research_batch.phase = "done"
  /\ research_batch.research_questions = <<"q1", "q2">>
  /\ research_batch.completed = <<2, 1>>
  /\ research_batch.combined.content =
       <<"Q:", "q1", "A:", "Error during research:", "APIError", "Q:", "q2", "A:", "a2">>
  /\ research_batch.combined.citations = <<[url |-> "u2", title |-> "t2"]>>

\* ---------------------------------------------------------------------------
\* The retry wrappers
\* ---------------------------------------------------------------------------
\* the failures the claims call transient
Transient == {"APIError", "APIConnectionError", "RateLimitError"}

\* C24: a call of a method of the OpenAI wrapper invokes the underlying
\* operation at most 3 times; every invocation but the last failed with an
\* API, connection or rate-limit error; the call returns exactly when an
\* invocation succeeds; it raises a transient failure only when it is the
\* third one, and what it raises to the stage is the last failure.
C24_BoundedRetry ==
  (retry.phase # "idle" /\ retry.decorator = retry_openai /\ ~retry.async) =>
    LET o == retry.outcomes
        n == Len(o)
    IN /\ n <= 3
       /\ \A k \in 1..(n - 1) : o[k] \in Transient
       /\ retry.phase = "returned" <=> (n >= 1 /\ o[n] = "ok")
       /\ retry.phase = "raised" <=> (n >= 1 /\ (o[n] \notin Transient \cup {"ok"} \/
                                                 (n = 3 /\ o[n] \in Transient)))
       /\ retry.phase = "raised" => retry.raised = o[n]
       /\ retry.phase = "running" => n < 3

\* three transient failures in a row: the third is raised to the stage
C24_Witness ==
  /\ retry.decorator = retry_openai
  /\ ~retry.async
  /\ retry.outcomes = <<"RateLimitError", "APIConnectionError", "APIError">>
  /\ retry.phase = "raised"
  /\ retry.raised = "APIError"

\* ---------------------------------------------------------------------------
\* The fallback of research_questions
\* ---------------------------------------------------------------------------
\* C25: when the call of Stage 1 failed with no record and Stage 2 made its
\* request, the value main handed to Stage 2 is a list of exactly two
\* questions, the two boilerplate questions, and the request of Stage 2
\* lists exactly those two.
C25_TwoFallbackQuestions ==
  ( /\ outcome["research_questions"] = "degraded"
    /\ failure["research_questions"].at = "call"
    /\ prompt_questions # <<>> ) =>
    /\ questions_to_ask.kind = "list"
    /\ Len(questions_to_ask.list) = 2
    /\ questions_to_ask.list = SplitLines(QuestionsFallback)
    /\ prompt_questions = SplitLines(QuestionsFallback)

\* ---------------------------------------------------------------------------
\* Job metadata
\* ---------------------------------------------------------------------------
\* C26: a run that creates its job directory writes metadata.json exactly
\* once, in the step that creates the directory and leads to Stage 1, before
\* any stage has started; no other step of the run (a stage, the failure
\* policy inside it, the assembly) writes it.
C26_MetadataWrittenOnce ==
  [][ /\ (pc \in {"idle", "done", "aborted"} /\ pc' = Steps[1]) =>
           /\ job_dir'
           /\ metadata_json' = metadata_json + 1
           /\ started' = <<>>
      /\ metadata_json' # metadata_json =>
           (pc \in {"idle", "done", "aborted"} /\ pc' = Steps[1]) ]_vars

\* a run went through the six stages and the assembly and metadata.json
\* was written once
C26_Witness ==
  /\ run = 1
  /\ pc = "done"
  /\ started = Steps
  /\ metadata_json = 1

\* ---------------------------------------------------------------------------
\* Stage 5's step count
\* ---------------------------------------------------------------------------
\* the number of steps Stage 5 compares the solution with: those of the
\* Stage 4 use case (of the configuration when it cannot be read)
StepCountOf(final) ==
  IF JsonLoadsUseCase(final.str).ok THEN Len(JsonLoadsUseCase(final.str).data.steps)
  ELSE Len(ConfigSteps)

\* C27: when Stage 5 warns that the generated solution has another number of
\* steps than the Stage 4 use case (and the record is written), it does not
\* raise: it returns the solution as the collaborator generated it, with
\* its own number of steps, the record holds that same text, and main goes
\* on to Stage 6.
C27_MismatchIsAWarning ==
  [][(StageStep(5) /\ ~warned /\ warned' /\ failure'["example_solution"].at # "save") =>
       /\ failure'["example_solution"].err = "none"
       /\ outcome'["example_solution"] = "fresh"
       /\ \E reply \in SolutionReplies :
            /\ reply.kind = "ok"
            /\ Len(reply.parsed.steps) # StepCountOf(final_use_case_json)
            /\ example_solution_json' = StrV(JsonDumpsSolution(reply.parsed))
       /\ ContentOf(files', "example_solution") = Some(example_solution_json'.str)
       /\ pc' = "visual_suggestions"]_vars

\* Stage 5 returned a solution of one step for a use case of two and Stage 6
\* is about to start
C27_Witness ==
  /\ warned
  /\ pc = "visual_suggestions"
  /\ outcome["example_solution"] = "fresh"
  /\ StepCountOf(final_use_case_json) = 2
  /\ example_solution_json = StrV(JsonDumpsSolution(SolutionOf(<<DemoStepOf("d1")>>)))

\* C28: when the research call of Stage 2, made through the Perplexity
\* wrapper, ends with an API, connection or rate-limit error raised to the
\* stage, the underlying operation has been attempted 5 times and every
\* attempt failed with such an error.
C28_PerplexityRetries ==
  ( /\ retry.decorator = retry_perplexity
    /\ retry.async
    /\ retry.phase = "raised"
    /\ retry.raised \in Transient ) =>
    /\ Len(retry.outcomes) = 5
    /\ \A k \in 1..Len(retry.outcomes) : retry.outcomes[k] \in Transient

\* C29: an exception of the underlying operation that is no API, connection
\* or rate-limit error ends the call at the attempt it occurs on: it is the
\* last attempt, it is what the call raises, and no wait follows it.  The
\* wrapper waits once before each retry, before retry number k for
\* min(max_wait, min_wait * 2^(k-1)), never longer than max_wait.
C29_NoRetryOfOtherErrors ==
  retry.phase # "idle" =>
    LET o == retry.outcomes
        n == Len(o)
        d == retry.decorator
    IN /\ \A k \in 1..n :
            o[k] \notin Transient \cup {"ok"} =>
              /\ k = n
              /\ retry.phase = "raised"
              /\ retry.raised = o[k]
              /\ Len(retry.waits) = IF retry.async THEN 0 ELSE n - 1
       /\ ~retry.async =>
            Len(retry.waits) = IF retry.phase = "running" THEN n ELSE n - 1
       /\ \A k \in 1..Len(retry.waits) :
            /\ retry.waits[k] =
                 IF d.max_wait < d.min_wait * 2^(k - 1) THEN d.max_wait
                 ELSE d.min_wait * 2^(k - 1)
            /\ retry.waits[k] <= d.max_wait

\* with min_wait 2 and max_wait 15 the waits before retries 1 to 4 were 2,
\* 4, 8 and 15, and the fifth attempt raised a ValueError, which the call
\* raised at once
C29_Witness ==
  /\ retry.decorator = retry_perplexity
  /\ ~retry.async
  /\ retry.waits = <<2, 4, 8, 15>>
  /\ Len(retry.outcomes) = 5
  /\ retry.outcomes[5] = "ValueError"
  /\ retry.phase = "raised"
  /\ retry.raised = "ValueError"

\* ---------------------------------------------------------------------------
\* Resuming a run
\* ---------------------------------------------------------------------------
\* C30: a run that finds the records of stages 1..k, written by an earlier
\* run, and whose remaining stages get answers from their collaborators and
\* write their records, ends as the uninterrupted run with those answers
\* ends: every stage runs, nothing is raised and the document is assembled.
\* (No stage fails on a value only because it came from a record.)
C30_ResumeEquivalence ==
  \A k \in 1..Len(Steps) :
    ( /\ pc \in {"done", "aborted"}
      /\ started # <<>>
      /\ \A i \in 1..k : outcome[Steps[i]] = "cache-hit"
      /\ \A i \in (k + 1)..Len(Steps) : failure[Steps[i]].at \in {"none", "prepare"} ) =>
      /\ pc = "done"
      /\ raised = "none"
      /\ started = Steps

C32_RecordsOnlyGrow ==
  [][\A i \in 1..Len(Steps) :
       /\ StageStep(i) => (\A k \in 1..Len(started) : started[k] # Steps[i])
       /\ (files'[Steps[i]] # files[Steps[i]]) => StageStep(i)
       /\ files[Steps[i]].exists => files'[Steps[i]].exists
       /\ (files[Steps[i]].exists /\ files[Steps[i]].text \notin {RecordText(<<>>), <<"{">>}) =>
            (files'[Steps[i]] = files[Steps[i]])]_vars

\* the second invocation went through Stage 1 on the record of the first
\* and wrote the record of Stage 2 itself; the assembler has run
C32_Witness ==
  /\ run = 2
  /\ pc = "done"
  /\ outcome["research_questions"] = "cache-hit"
  /\ outcome["deep_research"] = "fresh"
  /\ Truthy(ContentOf(files, "research_questions"))
  /\ Truthy(ContentOf(files, "deep_research"))

\* C33: in a run that starts from an empty job directory a record of
\* final_use_case comes with one of refined_draft, a record of
\* example_solution with one of final_use_case, a record of
\* visual_suggestions with one of example_solution, and use_case.md is
\* there only when refined_draft, final_use_case and example_solution all
\* have records
C33_PrefixClosed ==
  emptyStart =>
    /\ files["final_use_case"].exists => files["refined_draft"].exists
    /\ files["example_solution"].exists => files["final_use_case"].exists
    /\ files["visual_suggestions"].exists => files["example_solution"].exists
    /\ use_case_md.exists => \A s \in NoFallbackSteps : files[s].exists

\* a run from an empty directory wrote use_case.md although Stages 1 and 6
\* ended on their fallbacks and left no record
C33_Witness ==
  /\ emptyStart
  /\ pc = "done"
  /\ use_case_md.exists
  /\ \A s \in NoFallbackSteps : files[s].exists
  /\ ~files["research_questions"].exists
  /\ ~files["visual_suggestions"].exists

\* C34: whenever a stage of main fails and handle_step_failure is invoked,
\* the directory holds no record of the step with non-empty content, before
\* and after the stage, and the stage ends degraded or fatal, never
\* recovered from the cache
C34_RecoveryUnreachable ==
  [][\A i \in 1..Len(Steps) :
       (StageStep(i) /\ failure'[Steps[i]].err # "none") =>
         /\ outcome'[Steps[i]] \in {"degraded", "fatal"}
         /\ \A d \in {files, files'} :
              d[Steps[i]].exists => (d[Steps[i]].text \in {RecordText(<<>>), <<"{">>})]_vars

\* a second invocation went through Stage 1 on its record; Stage 2 failed
\* and took its fallback, Stage 3 failed and stopped the run
C34_Witness ==
  /\ run = 2
  /\ pc = "aborted"
  /\ outcome["research_questions"] = "cache-hit"
  /\ outcome["deep_research"] = "degraded"
  /\ outcome["refined_draft"] = "fatal"
  /\ failure["refined_draft"].at = "call"

\* C35: a record whose content is the empty string is a miss: the load
\* returns "", the stage goes on to its call (unless it raises while it
\* prepares the call) and a result it computes replaces the record; the
\* failure policy passes over such a record for every step and takes the
\* fallback table or raises again; and a stage returns the record without
\* computing exactly when the record holds non-empty content
C35_EmptyContentIsAMiss ==
  /\ \A s \in StepNames, e \in Errors :
       LET dir == [EmptyDir EXCEPT ![s] = File(RecordText(<<>>))]
       IN /\ load_partial_result(dir, s) = [raised |-> "none", ret |-> Some(<<>>)]
          /\ handle_step_failure(dir, s, e).via =
               IF s \in FallbackSteps THEN "fallback" ELSE "raise"
  /\ [][\A i \in 1..Len(Steps) :
          StageStep(i) =>
            /\ (outcome'[Steps[i]] = "cache-hit") <=>
                 (/\ files[Steps[i]].exists
                  /\ files[Steps[i]].text \notin {RecordText(<<>>), <<"{">>})
            /\ (files[Steps[i]].exists /\ files[Steps[i]].text = RecordText(<<>>)) =>
                 /\ outcome'[Steps[i]] \in {"fresh", "degraded", "fatal"}
                 /\ (calls'[Steps[i]] = calls[Steps[i]]) =>
                      (failure'[Steps[i]].at = "prepare")
                 /\ (outcome'[Steps[i]] = "fresh") =>
                      (files'[Steps[i]] = File(RecordText(Serialized(LocalOf(i)'))))
                 /\ (outcome'[Steps[i]] = "degraded") =>
                      (Steps[i] \in FallbackSteps /\ files' = files)]_vars

\* the first invocation left a record of Stage 6 holding the empty string;
\* the second made Stage 6's call again, the call failed, the failure policy
\* passed over the record and Stage 6 ended on its fallback
C35_Witness ==
  /\ run = 2
  /\ pc = "assemble"
  /\ outcome["visual_suggestions"] = "degraded"
  /\ failure["visual_suggestions"].at = "call"
  /\ calls["visual_suggestions"] = 2
  /\ files["visual_suggestions"] = File(RecordText(<<>>))

\* C36: a stage that starts on a record that cannot be parsed raises in its
\* load, the failure policy raises in its load again, and the run aborts
\* with that error, without a call, a fallback or a change of the directory,
\* for the stages that have a fallback as for the others; a stage that
\* leaves such a record behind aborts the run as well
C36_UnreadableRecordIsFatal ==
  [][\A i \in 1..Len(Steps) :
       StageStep(i) =>
         /\ (files[Steps[i]] = File(<<"{">>)) =>
              /\ failure'[Steps[i]] = [err |-> "JSONDecodeError", at |-> "load"]
              /\ outcome'[Steps[i]] = "fatal"
              /\ pc' = "aborted"
              /\ raised' = "JSONDecodeError"
              /\ LocalOf(i)' = Unset
              /\ calls' = calls
              /\ files' = files
         /\ (files'[Steps[i]] = File(<<"{">>)) =>
              (outcome'[Steps[i]] = "fatal" /\ pc' = "aborted")]_vars

\* the second invocation went through Stages 1 to 5 on their records and
\* aborted at Stage 6 on the truncated record a failed write had left
C36_Witness ==
  /\ run = 2
  /\ pc = "aborted"
  /\ \A i \in 1..5 : outcome[Steps[i]] = "cache-hit"
  /\ files["visual_suggestions"] = File(<<"{">>)
  /\ failure["visual_suggestions"] = [err |-> "JSONDecodeError", at |-> "load"]
  /\ outcome["visual_suggestions"] = "fatal"
  /\ calls["visual_suggestions"] = 1

\* the errors inside convert_json_to_markdown: json_content is no JSON, a
\* resource has a type outside the three groups, a citation has null as score
RaisesInside(json_content) ==
  LET loaded == JsonLoadsUseCase(json_content.str)
  IN \/ ~loaded.ok
     \/ \E k \in 1..Len(loaded.data.resources) :
          /\ loaded.data.resources[k].form = "dict"
          /\ loaded.data.resources[k].type \notin {"tool", "language", "mode", "missing"}
     \/ \E k \in 1..Len(loaded.data.citations.items) :
          loaded.data.citations.items[k].relevance_score.has = "null"

\* C37: the step of main that assembles the document never raises: it ends
\* the run normally, leaves the records and the reported status of the
\* stages as they are, and either writes use_case.md or, when the write
\* fails, leaves it as it was; when the conversion hits an error inside,
\* what is written is the empty string
C37_AssemblerNeverRaises ==
  [][(pc = "assemble" /\ pc' # pc) =>
       /\ pc' = "done"
       /\ raised = "none" /\ raised' = "none"
       /\ step_results' = step_results
       /\ files' = files
       /\ (use_case_md' = use_case_md) \/ use_case_md'.exists
       /\ (RaisesInside(final_use_case_json) /\ use_case_md' # use_case_md) =>
            (use_case_md' = File(<<>>))]_vars

\* the assembler returned the empty string, main wrote it to use_case.md and
\* ended normally: no failure was raised and no stage is reported as failed
C37_Witness ==
  /\ pc = "done"
  /\ use_case_md = File(<<>>)
  /\ raised = "none"
  /\ \A s \in StepNames : step_results[s] = "True"

\* the records that hold a refusal placeholder
PlaceholderRecords ==
  {File(RecordText(JsonDumpsUseCase(d))) : d \in {x \in UseCaseDocs : x.title = "Refusal"}}

\* C38: when the structured response of Stage 3 or 4 is flagged as a refusal
\* (and the save does not fail) the record of the step holds the placeholder
\* the stage returns; and a stage that starts on a record holding a
\* placeholder returns it as a cache hit, makes no call and leaves the
\* directory as it is, in every later invocation
C38_PlaceholderPersisted ==
  [][\A i \in {3, 4} :
       StageStep(i) =>
         /\ (Steps[i] \in refused' /\ failure'[Steps[i]].at # "save") =>
              /\ outcome'[Steps[i]] = "fresh"
              /\ files'[Steps[i]] = File(RecordText(LocalOf(i)'.str))
              /\ files'[Steps[i]] \in PlaceholderRecords
         /\ (files[Steps[i]] \in PlaceholderRecords) =>
              /\ outcome'[Steps[i]] = "cache-hit"
              /\ files[Steps[i]] = File(RecordText(LocalOf(i)'.str))
              /\ calls' = calls
              /\ files' = files
              /\ Steps[i] \notin refused']_vars

\* the first invocation got refusals in Stages 3 and 4; the second returned
\* both placeholders from their records without a call
C38_Witness ==
  /\ run = 2
  /\ pc = "example_solution"
  /\ outcome["refined_draft"] = "cache-hit"
  /\ outcome["final_use_case"] = "cache-hit"
  /\ files["refined_draft"] \in PlaceholderRecords
  /\ files["final_use_case"] \in PlaceholderRecords
  /\ calls["refined_draft"] = 2
  /\ calls["final_use_case"] = 1

\* the record of Stage 1 in the directory of the j-th job
JobRecord(j) == jobs.dirs[jobs.managers[j].job_id].records["research_questions"]

====
